---- MODULE Spec2Model ----
(***************************************************************************)
(* Verification model of the pro-data-analyst database helper scripts:     *)
(* the read-only query guard and row-cap rewrite (db_connector /            *)
(* run_query_safe), the dialect resolver, the per-dialect table inspection *)
(* of check_table.py, the metadata search of search_schema.py, the stored- *)
(* program source search of search_procedures.py, the connection health    *)
(* check of verify_connections.py and the parsed-document cache of         *)
(* search_glossary.py / search_documents.py.                                *)
(*                                                                          *)
(* SQL text is a sequence of lexical tokens (keywords, symbols, whitespace *)
(* tokens, comment markers); a string of the program is the concatenation  *)
(* of its tokens.                                                           *)
(***************************************************************************)
EXTENDS Integers, Sequences, FiniteSets, TLC

VARIABLES
    rq,     \* call frame of run_query: pc, sql, db_type, max_rows, final_sql, trace, error
    dt,     \* call frame of get_db_type: pc, alias, marker (<ALIAS>_TYPE), result, error
    ct,     \* call frame of _oracle_column_type: pc, row, result
    ti,     \* call frame of a table inspection: pc, db_type, catalog, schema, table, info, queries
    ss,     \* call frame of search_schema: pc, inputs, connection, cursor, pos, count, results, examined
    sp,     \* call frame of search_procedures: pc, inputs, connection, queries, phase-1 groups, results
    vc,     \* call frame of verify_connections._run_one: pc, alarm, attempt, result
    ch,     \* call frame of the document cache: pc, files, cache entries, loaded rows
    gc,     \* call frame of a with get_connection(...) block: pc, caller, connection, log
    vm      \* call frame of verify_connections.main: pc, argv, connections, counters, exit code

vars == <<rq, dt, ct, ti, ss, sp, vc, ch, gc, vm>>

-----------------------------------------------------------------------------
(* Bounds of the model *)

MaxSqlLen == 4       \* tokens of a free SQL text handed to the guard
MaxMarkers == 3      \* comment markers / quotes between SELECT and a stacked statement
MaxClauses == 2      \* clauses of the body of a query handed to the paginator
MaxRows == 2         \* largest row cap
MaxCasePrefix == 3   \* leading letters of a type marker whose case varies freely
MaxLength == 2       \* largest DATA_LENGTH drawn
MaxPrecision == 2    \* largest DATA_PRECISION drawn
MaxScale == 2        \* largest DATA_SCALE drawn
MaxIndexes == 2      \* indexes in a catalog
MaxSearchRows == 3   \* columns of the catalog a metadata search reads
MaxLimit == 2        \* largest limit of a metadata search
MaxSourceObjects == 3   \* stored programs in ALL_SOURCE
MaxObjectLimit == 2  \* largest limit_objects
MaxLineLimit == 1    \* largest limit_lines_per_object

-----------------------------------------------------------------------------
(* Generic helpers on token sequences *)

SeqUpTo(S, n) == UNION {[1..k -> S] : k \in 0..n}

None == "None"

IdleFrame == [pc |-> "idle"]

NoError == [kind |-> None, statement |-> <<>>]

IsSpace(t) == t \in {" ", "\n"}

\* str.upper() on a token: the mixed-case spellings the model uses
Upper(t) ==
    CASE t \in {"select", "Select"} -> "SELECT"
      [] t = "with" -> "WITH"
      [] t = "drop" -> "DROP"
      [] OTHER -> t

RECURSIVE LStrip(_)
LStrip(s) == IF s # <<>> /\ IsSpace(Head(s)) THEN LStrip(Tail(s)) ELSE s

RECURSIVE RStrip(_)
RStrip(s) == IF s # <<>> /\ IsSpace(s[Len(s)]) THEN RStrip(SubSeq(s, 1, Len(s) - 1)) ELSE s

RECURSIVE RStripSemicolons(_)
RStripSemicolons(s) ==
    IF s # <<>> /\ s[Len(s)] = ";" THEN RStripSemicolons(SubSeq(s, 1, Len(s) - 1)) ELSE s

\* number of places where the token sequence pat occurs in s
Occurrences(pat, s) ==
    Cardinality({i \in 1..(Len(s) - Len(pat) + 1) : SubSeq(s, i, i + Len(pat) - 1) = pat})

Contains(pat, s) == Occurrences(pat, s) > 0

RECURSIVE Flatten(_)
Flatten(seqs) == IF seqs = <<>> THEN <<>> ELSE Head(seqs) \o Flatten(Tail(seqs))

-----------------------------------------------------------------------------
(* QuerySafetyGuard: is_select_only *)

AllowedPrefixes == {"SELECT", "WITH", "EXPLAIN"}

DisallowedKeywords ==
    {"INSERT", "UPDATE", "DELETE", "DROP", "ALTER", "CREATE", "TRUNCATE",
     "MERGE", "GRANT", "REVOKE", "EXEC", "EXECUTE"}

RECURSIVE DropToEol(_)
DropToEol(s) == IF s = <<>> \/ Head(s) = "\n" THEN s ELSE DropToEol(Tail(s))

\* line comments: from -- to the end of the line (the newline stays)
RECURSIVE StripLineComments(_)
StripLineComments(s) ==
    IF s = <<>> THEN <<>>
    ELSE IF Head(s) = "--" THEN StripLineComments(DropToEol(Tail(s)))
    ELSE <<Head(s)>> \o StripLineComments(Tail(s))

\* index of the first comment terminator in s, 0 when there is none
FirstClose(s) ==
    IF \E i \in 1..Len(s) : s[i] = "*/"
    THEN CHOOSE i \in 1..Len(s) : s[i] = "*/" /\ \A j \in 1..(i - 1) : s[j] # "*/"
    ELSE 0

\* block comments: /* up to the nearest */; an opener with no terminator stays
RECURSIVE StripBlockComments(_)
StripBlockComments(s) ==
    IF s = <<>> THEN <<>>
    ELSE IF Head(s) = "/*" /\ FirstClose(Tail(s)) > 0
         THEN StripBlockComments(SubSeq(Tail(s), FirstClose(Tail(s)) + 1, Len(Tail(s))))
    ELSE <<Head(s)>> \o StripBlockComments(Tail(s))

StripComments(s) == StripBlockComments(StripLineComments(s))

StartsWithAllowed(s) == s # <<>> /\ Upper(s[1]) \in AllowedPrefixes

HasDisallowed(s) == \E i \in 1..Len(s) : Upper(s[i]) \in DisallowedKeywords

\* faulty variant: the keyword scan looks at the first statement only (up to the first ;)
is_select_only_first_statement(sql) ==
    LET cleaned == LStrip(StripComments(sql))
        first == IF \E i \in 1..Len(cleaned) : cleaned[i] = ";"
                 THEN SubSeq(cleaned, 1, CHOOSE i \in 1..Len(cleaned) :
                          cleaned[i] = ";" /\ \A j \in 1..(i - 1) : cleaned[j] # ";")
                 ELSE cleaned
    IN  StartsWithAllowed(cleaned) /\ ~HasDisallowed(first)

is_select_only(sql) ==
    LET cleaned == LStrip(StripComments(sql))
    IN  StartsWithAllowed(cleaned) /\ ~HasDisallowed(cleaned)

-----------------------------------------------------------------------------
(* QueryPaginator: _wrap_with_limit *)

Dialects == {"oracle", "mysql", "postgresql", "sqlserver"}

\* faulty variant: the terminators are left in place
StripTerminators_kept(sql) == sql

StripTerminators(sql) == RStripSemicolons(RStrip(sql))

\* index of the leading SELECT keyword (after leading whitespace), 0 when the
\* text does not begin with SELECT
LeadingSelect(s) ==
    LET lead == Len(s) - Len(LStrip(s))
    IN  IF lead < Len(s) /\ Upper(s[lead + 1]) = "SELECT" THEN lead + 1 ELSE 0

WrapOracle(s, n) ==
    <<"SELECT", " ", "*", " ", "FROM", " ", "(">> \o s
        \o <<")", " ", "WHERE", " ", "ROWNUM", " ", "<=", " ", ToString(n)>>

WrapLimit(s, n) ==
    <<"SELECT", " ", "*", " ", "FROM", " ", "(">> \o s
        \o <<")", " ", "AS", " ", "_limited", " ", "LIMIT", " ", ToString(n)>>

\* faulty variant: TOP N goes in front of the SELECT keyword
WrapTop_before(s, n) ==
    LET k == LeadingSelect(s)
    IN  IF k = 0 THEN s
        ELSE SubSeq(s, 1, k - 1) \o <<"TOP", " ", ToString(n), " ">> \o SubSeq(s, k, Len(s))

WrapTop(s, n) ==
    LET k == LeadingSelect(s)
    IN  IF k = 0 THEN s
        ELSE SubSeq(s, 1, k) \o <<" ", "TOP", " ", ToString(n)>> \o SubSeq(s, k + 1, Len(s))

_wrap_with_limit(sql, max_rows, db_type) ==
    LET s == StripTerminators(sql)
    IN  CASE db_type = "oracle" -> WrapOracle(s, max_rows)
          [] db_type \in {"mysql", "postgresql"} -> WrapLimit(s, max_rows)
          [] db_type = "sqlserver" -> WrapTop(s, max_rows)

\* the dialect's pagination token for a row cap
PaginationToken(db_type, n) ==
    CASE db_type = "oracle" -> <<"ROWNUM", " ", "<=", " ", ToString(n)>>
      [] db_type \in {"mysql", "postgresql"} -> <<"LIMIT", " ", ToString(n)>>
      [] db_type = "sqlserver" -> <<"TOP", " ", ToString(n)>>

-----------------------------------------------------------------------------
(* run_query: guard, then pagination rewrite, then connection *)

\* free texts over the guard's lexical alphabet
GuardTokens == {"SELECT", "DROP", ";", "--", "/*", "*/", "\n", "'"}
FreeTexts == SeqUpTo(GuardTokens, MaxSqlLen)

\* a SELECT, then comment markers and quotes, then a stacked DROP
Markers == {"--", "/*", "*/", "\n", "'"}
StackTails == {<<>>, <<"\n">>, <<"'">>, <<"*/">>, <<" ", "--", " ", "*/">>}
StackedTexts ==
    {<<"SELECT">> \o mid \o <<";", "DROP">> \o tail :
        mid \in SeqUpTo(Markers, MaxMarkers), tail \in StackTails}

\* queries for the paginator: leading whitespace, head keyword, body, terminators
Leads == {<<>>, <<"\n", " ">>}
Heads == {"SELECT", "select", "WITH", "DROP"}
Clauses ==
    {<<" ", "1">>, <<" ", "LIMIT", " ", "1">>, <<" ", "TOP", " ", "1">>,
     <<" ", "ROWNUM", " ", "<=", " ", "1">>, <<";">>, <<" ", "t">>}
Terminators == {<<>>, <<";">>, <<";", ";">>, <<";", "\n">>}
CapTexts ==
    {lead \o <<head>> \o Flatten(body) \o term :
        lead \in Leads, head \in Heads,
        body \in SeqUpTo(Clauses, MaxClauses), term \in Terminators}

InitQuery ==
    \E sql \in FreeTexts \cup StackedTexts \cup CapTexts :
    \E db_type \in (IF sql \in CapTexts THEN Dialects ELSE {"oracle"}) :
    \E max_rows \in (IF sql \in CapTexts THEN 1..MaxRows ELSE {1}) :
        /\ rq = [pc |-> "guard", sql |-> sql, db_type |-> db_type, max_rows |-> max_rows,
                 final_sql |-> <<>>, trace |-> <<>>, error |-> NoError]
        /\ dt = IdleFrame
        /\ ct = IdleFrame
        /\ ti = IdleFrame
        /\ ss = IdleFrame
        /\ sp = IdleFrame
        /\ vc = IdleFrame
        /\ ch = IdleFrame
        /\ gc = IdleFrame
        /\ vm = IdleFrame

\* run_query refuses text the guard does not classify as read-only
RunQueryReject ==
    /\ rq.pc = "guard"
    /\ ~is_select_only(rq.sql)
    /\ rq' = [rq EXCEPT !.pc = "rejected",
                        !.trace = Append(@, "guard"),
                        !.error = [kind |-> "ValueError", statement |-> rq.sql]]
    /\ UNCHANGED <<dt, ct, ti, ss, sp, vc, ch, gc, vm>>

\* faulty variant: the guard's verdict is not consulted
RunQueryAdmit_unguarded ==
    /\ rq.pc = "guard"
    /\ rq' = [rq EXCEPT !.pc = "paginate", !.trace = Append(@, "guard")]
    /\ UNCHANGED <<dt, ct, ti, ss, sp, vc, ch, gc, vm>>

RunQueryAdmit ==
    /\ rq.pc = "guard"
    /\ is_select_only(rq.sql)
    /\ rq' = [rq EXCEPT !.pc = "paginate", !.trace = Append(@, "guard")]
    /\ UNCHANGED <<dt, ct, ti, ss, sp, vc, ch, gc, vm>>

RunQueryPaginate ==
    /\ rq.pc = "paginate"
    /\ rq' = [rq EXCEPT !.pc = "connect",
                        !.final_sql = _wrap_with_limit(rq.sql, rq.max_rows, rq.db_type),
                        !.trace = Append(@, "paginate")]
    /\ UNCHANGED <<dt, ct, ti, ss, sp, vc, ch, gc, vm>>

RunQueryConnect ==
    /\ rq.pc = "connect"
    /\ rq' = [rq EXCEPT !.pc = "execute", !.trace = Append(@, "connect")]
    /\ UNCHANGED <<dt, ct, ti, ss, sp, vc, ch, gc, vm>>

RunQueryExecute ==
    /\ rq.pc = "execute"
    /\ rq' = [rq EXCEPT !.pc = "done", !.trace = Append(@, "execute")]
    /\ UNCHANGED <<dt, ct, ti, ss, sp, vc, ch, gc, vm>>

NextQuery ==
    \/ RunQueryReject
    \/ RunQueryAdmit
    \/ RunQueryPaginate
    \/ RunQueryConnect
    \/ RunQueryExecute

SpecQuery == InitQuery /\ [][NextQuery]_vars


-----------------------------------------------------------------------------
(* Properties of the guard, the paginator and run_query *)

\* the subsequence of s at the positions P, in order
AtPositions(s, P) ==
    [k \in 1..Cardinality(P) |-> s[CHOOSE p \in P : Cardinality({q \in P : q <= p}) = k]]

\* position i of s lies in a line comment: a -- at or before it, no newline in between
InLineComment(s, i) == \E j \in 1..i : s[j] = "--" /\ \A k \in j..i : s[k] # "\n"

WithoutLineComments(s) == AtPositions(s, {i \in 1..Len(s) : ~InLineComment(s, i)})

\* position i of s lies in a block comment: comments are the leftmost
\* non-overlapping spans from a /* to the nearest */ after it
WithoutBlockComments(s) ==
    LET n == Len(s)
        HasClose(a) == \E b \in (a + 1)..n : s[b] = "*/"
        CloseOf(a) == CHOOSE b \in (a + 1)..n :
                          s[b] = "*/" /\ \A c \in (a + 1)..(b - 1) : s[c] # "*/"
        opens[a \in 1..n] ==
            /\ s[a] = "/*"
            /\ HasClose(a)
            /\ \A e \in 1..(a - 1) : opens[e] => CloseOf(e) < a
        InBlock(i) == \E a \in 1..i : opens[a] /\ i <= CloseOf(a)
    IN  AtPositions(s, {i \in 1..n : ~InBlock(i)})

\* the read-only contract, stated on positions of the text
ReadOnlyContract(sql) ==
    LET text == WithoutBlockComments(WithoutLineComments(sql))
    IN  /\ \E k \in 1..Len(text) :
              /\ \A i \in 1..(k - 1) : IsSpace(text[i])
              /\ Upper(text[k]) \in AllowedPrefixes
        /\ \A i \in 1..Len(text) : Upper(text[i]) \notin DisallowedKeywords

GuardDecided == rq.pc \notin {"idle", "guard"}

\* C1: is_select_only(sql) is true exactly when the text with every line comment
\* and every block comment removed starts (after leading whitespace, in any letter
\* case) with SELECT, WITH or EXPLAIN and holds no disallowed keyword anywhere.
C1_GuardMatchesContract ==
    GuardDecided => ((rq.pc # "rejected") <=> ReadOnlyContract(rq.sql))

\* C1 witness: a text with a block comment in front and a line comment behind is admitted
C1_Witness ==
    /\ rq.pc = "paginate"
    /\ rq.sql = <<"/*", "*/", "SELECT", "--">>

\* what the database reads: quoted literals are opaque, comments are skipped
RECURSIVE DbTokens(_, _)
DbTokens(s, mode) ==
    IF s = <<>> THEN <<>>
    ELSE LET t == Head(s)
             r == Tail(s)
         IN  CASE mode = "sql" ->
                     IF t = "'" THEN DbTokens(r, "literal")
                     ELSE IF t = "--" THEN DbTokens(r, "line")
                     ELSE IF t = "/*" THEN DbTokens(r, "block")
                     ELSE <<t>> \o DbTokens(r, "sql")
               [] mode = "literal" ->
                     IF t = "'" THEN <<"<literal>">> \o DbTokens(r, "sql")
                     ELSE DbTokens(r, "literal")
               [] mode = "line" ->
                     IF t = "\n" THEN <<t>> \o DbTokens(r, "sql") ELSE DbTokens(r, "line")
               [] mode = "block" ->
                     IF t = "*/" THEN DbTokens(r, "sql") ELSE DbTokens(r, "block")

\* a statement beginning with a disallowed keyword follows a semicolon after a
\* SELECT/WITH/EXPLAIN statement
StackedStatement(sql) ==
    LET db == DbTokens(sql, "sql")
    IN  /\ StartsWithAllowed(LStrip(db))
        /\ \E i \in 1..Len(db) : \E j \in (i + 1)..Len(db) :
              /\ db[i] = ";"
              /\ Upper(db[j]) \in DisallowedKeywords
              /\ \A k \in (i + 1)..(j - 1) : IsSpace(db[k])

\* C2: every text in which a disallowed statement is stacked behind a semicolon
\* after a SELECT/WITH/EXPLAIN statement is rejected by the guard, wherever
\* comment markers occur, also inside quoted literals.
C2_StackedStatementRejected ==
    (GuardDecided /\ StackedStatement(rq.sql)) => rq.pc = "rejected"

\* C3: text the guard refuses is rejected before any connection is opened and
\* before any statement is sent, the error carries the statement, and every
\* path runs guard, then pagination rewrite, then connection.
C3_RejectedBeforeConnection ==
    /\ (GuardDecided /\ ~is_select_only(rq.sql)) =>
          /\ rq.pc = "rejected"
          /\ rq.trace = <<"guard">>
          /\ rq.error.kind = "ValueError"
          /\ rq.error.statement = rq.sql
    /\ rq.pc # "idle" =>
          \A i \in 1..Len(rq.trace) :
              /\ rq.trace[i] = "guard" => i = 1
              /\ rq.trace[i] = "paginate" => i = 2 /\ rq.trace[1] = "guard"
              /\ rq.trace[i] = "connect" => i = 3 /\ rq.trace[2] = "paginate"
              /\ rq.trace[i] = "execute" => i = 4 /\ rq.trace[3] = "connect"

\* C3 witness: a stacked DELETE-like text was refused with only the guard having run
C3_Witness ==
    /\ rq.pc = "rejected"
    /\ rq.sql = <<"SELECT", ";", "DROP">>
    /\ rq.trace = <<"guard">>
    /\ rq.error.statement = rq.sql

Paginated == rq.pc \in {"connect", "execute", "done"}

\* the text behind the head keyword, without trailing terminators
BodyOf(sql) ==
    LET s == StripTerminators(sql)
        lead == Len(s) - Len(LStrip(s))
    IN  SubSeq(s, lead + 2, Len(s))

\* C4: for every dialect, every row cap and every admitted text the capped text
\* holds the dialect's pagination token exactly once and still holds the body.
C4_TokenExactlyOnce ==
    Paginated =>
        /\ Occurrences(PaginationToken(rq.db_type, rq.max_rows), rq.final_sql) = 1
        /\ Contains(BodyOf(rq.sql), rq.final_sql)

LimitSuffix(n) == <<")", " ", "AS", " ", "_limited", " ", "LIMIT", " ", ToString(n)>>

\* the part of the capped text in front of the closing LIMIT clause
BeforeLimit(final) == SubSeq(final, 1, Len(final) - 3)

\* C5 as stated: for mysql and postgresql the capped text embeds the statement
\* as a subquery aliased _limited, ends with LIMIT N, and no ; of the input
\* is left in front of the LIMIT clause.
C5_NoSemicolonBeforeLimit ==
    (Paginated /\ rq.db_type \in {"mysql", "postgresql"}) =>
        /\ Len(rq.final_sql) >= Len(LimitSuffix(rq.max_rows))
        /\ SubSeq(rq.final_sql, Len(rq.final_sql) - 8, Len(rq.final_sql))
              = LimitSuffix(rq.max_rows)
        /\ \A i \in 1..Len(BeforeLimit(rq.final_sql)) : rq.final_sql[i] # ";"

\* C5 amended: for mysql and postgresql the capped text is
\* SELECT * FROM (S) AS _limited LIMIT N, where S is the input without its
\* trailing terminators: the input is S followed only by ; and whitespace,
\* and S does not end with ; (a ; inside the statement stays).
C5_TrailingTerminatorsStripped ==
    (Paginated /\ rq.db_type \in {"mysql", "postgresql"}) =>
        \E k \in 0..Len(rq.sql) :
            LET S == SubSeq(rq.sql, 1, k)
            IN  /\ rq.final_sql = <<"SELECT", " ", "*", " ", "FROM", " ", "(">> \o S
                                      \o LimitSuffix(rq.max_rows)
                /\ \A i \in (k + 1)..Len(rq.sql) : rq.sql[i] = ";" \/ IsSpace(rq.sql[i])
                /\ k > 0 => S[k] # ";"

\* C5 witness: a statement with a ; inside and terminators behind was capped for mysql
C5_Witness ==
    /\ rq.pc = "connect"
    /\ rq.db_type = "mysql"
    /\ rq.sql = <<"SELECT", ";", " ", "1", ";", ";">>
    /\ rq.final_sql = <<"SELECT", " ", "*", " ", "FROM", " ", "(", "SELECT", ";", " ", "1">>
                          \o LimitSuffix(rq.max_rows)

\* C6: for sqlserver TOP N is injected immediately behind the leading SELECT
\* keyword (any letter case, any leading whitespace) and the rest of the
\* statement is unchanged.
C6_TopAfterLeadingSelect ==
    (Paginated /\ rq.db_type = "sqlserver" /\ Upper(LStrip(rq.sql)[1]) = "SELECT") =>
        LET out == LStrip(rq.final_sql)
        IN  /\ Len(out) = 5 + Len(BodyOf(rq.sql))
            /\ Upper(out[1]) = "SELECT"
            /\ SubSeq(out, 2, 5) = <<" ", "TOP", " ", ToString(rq.max_rows)>>
            /\ SubSeq(out, 6, Len(out)) = BodyOf(rq.sql)

\* C6 witness: a lower-case select behind leading whitespace got its TOP
C6_Witness ==
    /\ rq.pc = "connect"
    /\ rq.db_type = "sqlserver"
    /\ rq.max_rows = 2
    /\ rq.sql = <<"\n", " ", "select", " ", "1", ";">>
    /\ rq.final_sql = <<"\n", " ", "select", " ", "TOP", " ", "2", " ", "1">>

-----------------------------------------------------------------------------
(* DialectResolver: get_db_type *)

\* a string of the environment is a sequence of characters
LowerLetters ==
    <<"a", "b", "c", "d", "e", "f", "g", "h", "i", "j", "k", "l", "m",
      "n", "o", "p", "q", "r", "s", "t", "u", "v", "w", "x", "y", "z">>
UpperLetters ==
    <<"A", "B", "C", "D", "E", "F", "G", "H", "I", "J", "K", "L", "M",
      "N", "O", "P", "Q", "R", "S", "T", "U", "V", "W", "X", "Y", "Z">>

LowerChar(c) ==
    IF \E i \in 1..26 : UpperLetters[i] = c
    THEN LowerLetters[CHOOSE i \in 1..26 : UpperLetters[i] = c]
    ELSE c

UpperChar(c) ==
    IF \E i \in 1..26 : LowerLetters[i] = c
    THEN UpperLetters[CHOOSE i \in 1..26 : LowerLetters[i] = c]
    ELSE c

\* str.lower()
Lower(str) == [i \in 1..Len(str) |-> LowerChar(str[i])]

Chars_oracle == <<"o", "r", "a", "c", "l", "e">>
Chars_mysql == <<"m", "y", "s", "q", "l">>
Chars_postgresql == <<"p", "o", "s", "t", "g", "r", "e", "s", "q", "l">>
Chars_sqlserver == <<"s", "q", "l", "s", "e", "r", "v", "e", "r">>

SupportedTypes == {Chars_oracle, Chars_mysql, Chars_postgresql, Chars_sqlserver}

LegacyAlias == "DWH"

\* the marker of an alias that has none
Unset == <<"<unset>">>

TypeVar(alias) == alias \o "_TYPE"

\* faulty variant: the marker is compared as written, without case folding
get_db_type_case_sensitive(alias, marker) ==
    IF marker = Unset
    THEN IF alias = LegacyAlias
         THEN [ok |-> TRUE, value |-> Chars_oracle, error |-> NoError]
         ELSE [ok |-> FALSE, value |-> <<>>,
               error |-> [kind |-> "ValueError", reason |-> "not set",
                          names |-> TypeVar(alias), value |-> <<>>]]
    ELSE IF marker \in SupportedTypes
         THEN [ok |-> TRUE, value |-> marker, error |-> NoError]
         ELSE [ok |-> FALSE, value |-> <<>>,
               error |-> [kind |-> "ValueError", reason |-> "not supported",
                          names |-> TypeVar(alias), value |-> marker]]

get_db_type(alias, marker) ==
    IF marker = Unset
    THEN IF alias = LegacyAlias
         THEN [ok |-> TRUE, value |-> Chars_oracle, error |-> NoError]
         ELSE [ok |-> FALSE, value |-> <<>>,
               error |-> [kind |-> "ValueError", reason |-> "not set",
                          names |-> TypeVar(alias), value |-> <<>>]]
    ELSE IF Lower(marker) \in SupportedTypes
         THEN [ok |-> TRUE, value |-> Lower(marker), error |-> NoError]
         ELSE [ok |-> FALSE, value |-> <<>>,
               error |-> [kind |-> "ValueError", reason |-> "not supported",
                          names |-> TypeVar(alias), value |-> Lower(marker)]]

Aliases == {"DWH", "SOURCE", "MYDB"}

Min(a, b) == IF a < b THEN a ELSE b

\* the word with the letters at the positions P in upper case
WithCase(word, P) == [i \in 1..Len(word) |-> IF i \in P THEN UpperChar(word[i]) ELSE word[i]]

MarkerWords ==
    SupportedTypes \cup
        {<<"m", "o", "n", "g", "o", "d", "b">>, <<"p", "o", "s", "t", "g", "r", "e", "s">>,
         <<"o", "r", "a", "c", "l", "e", "1", "9">>}

\* every casing of the first letters, the all-capitals spelling and PostgreSQL
Markers_TYPE ==
    {WithCase(w, P) : w \in MarkerWords, P \in SUBSET (1..MaxCasePrefix)}
        \cup {WithCase(w, 1..Len(w)) : w \in MarkerWords}
        \cup {WithCase(Chars_postgresql, {1, 8, 9, 10})}

InitDbType ==
    \E alias \in Aliases, marker \in Markers_TYPE \cup {Unset} :
        /\ dt = [pc |-> "call", alias |-> alias, marker |-> marker,
                 result |-> <<>>, error |-> NoError]
        /\ rq = IdleFrame
        /\ ct = IdleFrame
        /\ ti = IdleFrame
        /\ ss = IdleFrame
        /\ sp = IdleFrame
        /\ vc = IdleFrame
        /\ ch = IdleFrame
        /\ gc = IdleFrame
        /\ vm = IdleFrame

GetDbTypeReturn ==
    /\ dt.pc = "call"
    /\ get_db_type(dt.alias, dt.marker).ok
    /\ dt' = [dt EXCEPT !.pc = "returned", !.result = get_db_type(dt.alias, dt.marker).value]
    /\ UNCHANGED <<rq, ct, ti, ss, sp, vc, ch, gc, vm>>

GetDbTypeRaise ==
    /\ dt.pc = "call"
    /\ ~get_db_type(dt.alias, dt.marker).ok
    /\ dt' = [dt EXCEPT !.pc = "raised", !.error = get_db_type(dt.alias, dt.marker).error]
    /\ UNCHANGED <<rq, ct, ti, ss, sp, vc, ch, gc, vm>>

NextDbType == GetDbTypeReturn \/ GetDbTypeRaise

SpecDbType == InitDbType /\ [][NextDbType]_vars

\* marker spells kind in some letter case
SpellsKind(marker, kind) ==
    /\ Len(marker) = Len(kind)
    /\ \A i \in 1..Len(kind) : marker[i] = kind[i] \/ marker[i] = UpperChar(kind[i])

\* C7: a marker spelling one of the four engine kinds in any letter case gives
\* the lower-case kind; no marker gives oracle for the legacy alias DWH and an
\* error naming <ALIAS>_TYPE as not set for any other alias; any other marker
\* gives an error naming the invalid value; every result is an engine kind.
C7_DbTypeResolution ==
    dt.pc \in {"returned", "raised"} =>
        /\ \A kind \in SupportedTypes :
              (dt.marker # Unset /\ SpellsKind(dt.marker, kind)) =>
                  dt.pc = "returned" /\ dt.result = kind
        /\ (dt.marker = Unset /\ dt.alias = "DWH") =>
              dt.pc = "returned" /\ dt.result = Chars_oracle
        /\ (dt.marker = Unset /\ dt.alias # "DWH") =>
              /\ dt.pc = "raised"
              /\ dt.error.reason = "not set"
              /\ dt.error.names \in {"SOURCE_TYPE", "MYDB_TYPE"}
              /\ dt.error.names = dt.alias \o "_TYPE"
        /\ (dt.marker # Unset /\ \A kind \in SupportedTypes : ~SpellsKind(dt.marker, kind)) =>
              /\ dt.pc = "raised"
              /\ dt.error.reason = "not supported"
              /\ SpellsKind(dt.marker, dt.error.value)
        /\ dt.pc = "returned" => dt.result \in SupportedTypes

\* C7 witness: MYDB_TYPE=PostgreSQL resolved to postgresql
C7_Witness ==
    /\ dt.pc = "returned"
    /\ dt.alias = "MYDB"
    /\ dt.marker = <<"P", "o", "s", "t", "g", "r", "e", "S", "Q", "L">>
    /\ dt.result = Chars_postgresql

-----------------------------------------------------------------------------
(* Oracle type synthesis: check_table._oracle_column_type *)

\* a nullable catalog value: <<>> is NULL / None, <<v>> holds v
Null == <<>>
Some(v) == <<v>>

\* Python truthiness of a nullable number
Truthy(v) == v # Null /\ v[1] # 0

\* str() of a nullable number inside an f-string
Str(v) == IF v = Null THEN "None" ELSE ToString(v[1])

_oracle_column_type(data_type, data_length, precision, scale) ==
    IF data_type \in {"VARCHAR2", "CHAR"}
    THEN data_type \o "(" \o Str(data_length) \o ")"
    ELSE IF data_type = "NUMBER" /\ Truthy(precision)
    THEN IF Truthy(scale) /\ scale[1] > 0
         THEN data_type \o "(" \o Str(precision) \o "," \o Str(scale) \o ")"
         ELSE data_type \o "(" \o Str(precision) \o ")"
    ELSE data_type

OracleTypeNames == {"VARCHAR2", "CHAR", "NVARCHAR2", "NCHAR", "NUMBER", "DATE", "FLOAT"}

Nullable(S) == {Null} \cup {Some(v) : v \in S}

InitColumnType ==
    \E data_type \in OracleTypeNames,
       data_length \in Nullable(0..MaxLength),
       precision \in Nullable(0..MaxPrecision),
       scale \in Nullable(-1..MaxScale) :
        /\ ct = [pc |-> "call", data_type |-> data_type, data_length |-> data_length,
                 precision |-> precision, scale |-> scale, result |-> ""]
        /\ rq = IdleFrame
        /\ dt = IdleFrame
        /\ ti = IdleFrame
        /\ ss = IdleFrame
        /\ sp = IdleFrame
        /\ vc = IdleFrame
        /\ ch = IdleFrame
        /\ gc = IdleFrame
        /\ vm = IdleFrame

OracleColumnType ==
    /\ ct.pc = "call"
    /\ ct' = [ct EXCEPT !.pc = "done",
                        !.result = _oracle_column_type(ct.data_type, ct.data_length,
                                                       ct.precision, ct.scale)]
    /\ UNCHANGED <<rq, dt, ti, ss, sp, vc, ch, gc, vm>>

NextColumnType == OracleColumnType

SpecColumnType == InitColumnType /\ [][NextColumnType]_vars

\* the character types of Oracle
OracleCharacterTypes == {"VARCHAR2", "CHAR", "NVARCHAR2", "NCHAR"}

\* C8: the rendered type depends on (type name, length, precision, scale)
\* only: a character type renders as TYPE(length); NUMBER with a precision
\* set renders the precision always and the scale only when it is present
\* and greater than zero; every other type renders as its bare name.
C8_OracleTypeSynthesis ==
    ct.pc = "done" =>
        LET t == ct.data_type
            p == ct.precision
            s == ct.scale
        IN  /\ t \in OracleCharacterTypes =>
                  ct.result = t \o "(" \o Str(ct.data_length) \o ")"
            /\ (t = "NUMBER" /\ p # Null /\ p[1] > 0 /\ s # Null /\ s[1] > 0) =>
                  ct.result = "NUMBER(" \o Str(p) \o "," \o Str(s) \o ")"
            /\ (t = "NUMBER" /\ p # Null /\ p[1] > 0 /\ (s = Null \/ s[1] <= 0)) =>
                  ct.result = "NUMBER(" \o Str(p) \o ")"
            /\ (t \notin OracleCharacterTypes \cup {"NUMBER"}
                    \/ (t = "NUMBER" /\ ~(p # Null /\ p[1] > 0))) =>
                  ct.result = t

\* search_schema._oracle_search: the data type string built inline for a
\* matching column
type_str_truthy_scale(dtype, dlen, dprec, dscale) ==
    IF dtype \in {"VARCHAR2", "CHAR"}
    THEN dtype \o "(" \o Str(dlen) \o ")"
    ELSE IF dtype = "NUMBER" /\ Truthy(dprec)
    THEN IF Truthy(dscale)
         THEN dtype \o "(" \o Str(dprec) \o "," \o Str(dscale) \o ")"
         ELSE dtype \o "(" \o Str(dprec) \o ")"
    ELSE dtype

type_str(dtype, dlen, dprec, dscale) ==
    IF dtype \in {"VARCHAR2", "CHAR"}
    THEN dtype \o "(" \o Str(dlen) \o ")"
    ELSE IF dtype = "NUMBER" /\ Truthy(dprec)
    THEN IF Truthy(dscale) /\ dscale[1] > 0
         THEN dtype \o "(" \o Str(dprec) \o "," \o Str(dscale) \o ")"
         ELSE dtype \o "(" \o Str(dprec) \o ")"
    ELSE dtype

\* C28: the Oracle data type string of the metadata search equals the one
\* of table inspection for every type name, length, precision and scale,
\* absent, zero and negative precision and scale included.
C28_SearchTypeEqualsInspectType ==
    /\ ct.pc = "done" =>
          type_str(ct.data_type, ct.data_length, ct.precision, ct.scale) = ct.result
    /\ ct.pc # "idle" =>
          \A dprec \in Nullable(-1..MaxPrecision), dscale \in Nullable(-1..MaxScale) :
              type_str(ct.data_type, ct.data_length, dprec, dscale)
                = _oracle_column_type(ct.data_type, ct.data_length, dprec, dscale)

\* C28 witness: NUMBER with precision 2 and scale -1, precision-only in both
C28_Witness ==
    /\ ct.pc = "done"
    /\ ct.data_type = "NUMBER"
    /\ ct.precision = Some(2)
    /\ ct.scale = Some(-1)
    /\ ct.result = "NUMBER(2)"
    /\ type_str(ct.data_type, ct.data_length, ct.precision, ct.scale) = "NUMBER(2)"

-----------------------------------------------------------------------------
(* TableCatalogAdapter: check_table._oracle_table_info, _mysql_table_info,  *)
(* _pg_table_info, _sqlserver_table_info                                    *)

\* str truthiness of a nullable string
TruthyStr(v) == v # Null /\ v[1] # ""

RECURSIVE JoinWith(_, _)
JoinWith(strs, sep) ==
    IF strs = <<>> THEN ""
    ELSE IF Len(strs) = 1 THEN strs[1]
    ELSE strs[1] \o sep \o JoinWith(Tail(strs), sep)

\* the column names of the rows [col, pos, id] in ascending pos: every order
\* the ORDER BY admits, rows that tie on pos coming in any order
RECURSIVE OrderByPos(_)
OrderByPos(rows) ==
    IF rows = {} THEN {<<>>}
    ELSE UNION {{<<r.col>> \o rest : rest \in OrderByPos(rows \ {r})} :
                    r \in {x \in rows : \A y \in rows : x.pos <= y.pos}}

\* LISTAGG / GROUP_CONCAT / string_agg / STRING_AGG ... ORDER BY position:
\* the strings the aggregate may give
AggregateColumns(rows, sep) ==
    {JoinWith(cols, sep) : cols \in OrderByPos(rows)}

\* the result sets of a grouped query whose rows hold in `columns` the strings
\* the aggregate may give: one string per row
AdmittedResults(grouped) ==
    {{[name |-> g.name, type |-> g.type, unique |-> g.unique, columns |-> f[g]] :
          g \in grouped} :
        f \in {h \in [grouped -> UNION {g.columns : g \in grouped}] :
                  \A g \in grouped : h[g] \in g.columns}}

\* the result rows of a GROUP BY query come in an order the engine chooses
Orderings(S) ==
    {f \in [1..Cardinality(S) -> S] : \A i, j \in 1..Cardinality(S) : f[i] = f[j] => i = j}

\* ---- the catalog the engines expose

InspectedTable == <<"S", "T1">>
TableUniverse == {<<"S", "T1">>, <<"S", "T2">>, <<"R", "T1">>}

IndexNames == {"IDX1", "IDX2"}
KeyLists == {<<"COL_A">>, <<"COL_B", "COL_A">>}

Column(name, kind, length, precision, scale, nullable, default, comment) ==
    [name |-> name, kind |-> kind, length |-> length, precision |-> precision,
     scale |-> scale, nullable |-> nullable, default |-> default, comment |-> comment]

Part(name, position, high_value, num_rows, label) ==
    [name |-> name, position |-> position, high_value |-> high_value,
     num_rows |-> num_rows, label |-> label]

TableMeta(tbl) ==
    CASE tbl = <<"S", "T1">> ->
            [comment |-> Some("orders"),
             columns |-> <<Column("ID", "number", Some(22), Some(10), Some(0), FALSE, Null, Some("key")),
                           Column("NAME", "string", Some(100), Null, Null, TRUE, Some("'x'"), Null)>>,
             partitions |-> <<Part("P1", 1, Some("100"), Some(5), Some("ENABLED")),
                              Part("P2", 2, Null, Null, Null)>>,
             stats |-> [num_rows |-> Some(10), blocks |-> Some(2), avg_row_len |-> Some(8),
                        last_analyzed |-> Some("2024-01-01")]]
      [] tbl = <<"S", "T2">> ->
            [comment |-> Null,
             columns |-> <<Column("AMT", "decimal", Some(22), Some(10), Some(2), TRUE, Null, Some("amount"))>>,
             partitions |-> <<>>,
             stats |-> [num_rows |-> Some(0), blocks |-> Some(0), avg_row_len |-> Null,
                        last_analyzed |-> Null]]
      [] tbl = <<"R", "T1">> ->
            [comment |-> Some("copy"),
             columns |-> <<Column("D", "date", Some(7), Null, Null, TRUE, Null, Null)>>,
             partitions |-> <<Part("Q1", 1, Some("9"), Some(1), Null)>>,
             stats |-> [num_rows |-> Some(1), blocks |-> Some(1), avg_row_len |-> Some(7),
                        last_analyzed |-> Some("2024-02-02")]]

\* the index definitions an engine admits on a table
IndexDefsOn(db_type, tbl) ==
    {[owner |-> owner, name |-> name, table |-> tbl, unique |-> unique,
      keys |-> keys, included |-> included] :
        owner \in (IF db_type = "oracle" THEN {tbl[1], "U"} ELSE {tbl[1]}),
        name \in IndexNames, unique \in BOOLEAN, keys \in KeyLists,
        included \in (IF db_type \in {"postgresql", "sqlserver"}
                      THEN {<<>>, <<"COL_C">>} ELSE {<<>>})}

\* index names are unique per owner (oracle), per schema (postgresql), per table (mysql, sqlserver)
IndexNamesUnique(db_type, indexes) ==
    \A x, y \in indexes :
        (x # y /\ x.name = y.name) =>
            CASE db_type = "oracle" -> x.owner # y.owner
              [] db_type = "postgresql" -> x.table[1] # y.table[1]
              [] OTHER -> x.table # y.table

Catalogs(db_type) ==
    {[tables |-> tables, indexes |-> indexes] :
        tables \in {TableUniverse, TableUniverse \ {InspectedTable}},
        indexes \in {{}} \cup {{f[k] : k \in 1..MaxIndexes} :
                        f \in [1..MaxIndexes -> UNION {IndexDefsOn(db_type, tbl) : tbl \in TableUniverse}]}}

WellFormed(db_type, cat) ==
    /\ \A x \in cat.indexes : x.table \in cat.tables
    /\ IndexNamesUnique(db_type, cat.indexes)

UniqueLabel(b) == IF b THEN "UNIQUE" ELSE "NONUNIQUE"

\* faulty variant: the catalog is filtered on the table name alone
CatalogLookup_any_schema(cat, schema, table_name) ==
    {tbl \in cat.tables : tbl[2] = table_name}

\* WHERE <schema column> = :1 AND <table column> = :2 over the table-level views
CatalogLookup(cat, schema, table_name) ==
    {tbl \in cat.tables : tbl[1] = schema /\ tbl[2] = table_name}

\* the metadata of the looked-up table; read only when the lookup found it
LookedUp(cat, schema, table_name) ==
    LET hits == CatalogLookup(cat, schema, table_name)
    IN  IF hits = {} THEN TableMeta(InspectedTable) ELSE TableMeta(CHOOSE tbl \in hits : TRUE)

_stats_dict(num_rows, blocks, avg_row_len, last_analyzed) ==
    [num_rows |-> num_rows, blocks |-> blocks, avg_row_len |-> avg_row_len,
     last_analyzed |-> IF TruthyStr(last_analyzed) THEN last_analyzed ELSE Null]

\* ---- Oracle

ALL_INDEXES(cat) ==
    {[OWNER |-> x.owner, INDEX_NAME |-> x.name, INDEX_TYPE |-> "NORMAL",
      UNIQUENESS |-> UniqueLabel(x.unique), TABLE_OWNER |-> x.table[1],
      TABLE_NAME |-> x.table[2]] : x \in cat.indexes}

ALL_IND_COLUMNS(cat) ==
    UNION {{[INDEX_OWNER |-> x.owner, INDEX_NAME |-> x.name, TABLE_OWNER |-> x.table[1],
             TABLE_NAME |-> x.table[2], COLUMN_NAME |-> x.keys[p], COLUMN_POSITION |-> p] :
                p \in 1..Len(x.keys)} : x \in cat.indexes}

OracleDataType(col) ==
    CASE col.kind = "number" -> "NUMBER"
      [] col.kind = "decimal" -> "NUMBER"
      [] col.kind = "string" -> "VARCHAR2"
      [] col.kind = "date" -> "DATE"

OracleIndexes(cat, schema, table_name) ==
    LET joined == {j \in {[i |-> i, c |-> c] : i \in ALL_INDEXES(cat), c \in ALL_IND_COLUMNS(cat)} :
                      /\ j.i.INDEX_NAME = j.c.INDEX_NAME
                      /\ j.i.TABLE_OWNER = j.c.TABLE_OWNER
                      /\ j.i.TABLE_OWNER = schema
                      /\ j.i.TABLE_NAME = table_name}
        groups == {<<j.i.INDEX_NAME, j.i.INDEX_TYPE, j.i.UNIQUENESS>> : j \in joined}
        rows(g) == {[col |-> j.c.COLUMN_NAME, pos |-> j.c.COLUMN_POSITION, id |-> j] :
                        j \in {h \in joined : <<h.i.INDEX_NAME, h.i.INDEX_TYPE, h.i.UNIQUENESS>> = g}}
    IN  {[name |-> g[1], type |-> g[2], unique |-> g[3],
          columns |-> AggregateColumns(rows(g), ", ")] : g \in groups}

_oracle_table_info(cat, schema, table_name, indexes) ==
    LET found == CatalogLookup(cat, schema, table_name) # {}
        meta == LookedUp(cat, schema, table_name)
        cols == IF found THEN meta.columns ELSE <<>>
        parts == IF found THEN meta.partitions ELSE <<>>
    IN  [schema |-> schema, table |-> table_name, db_type |-> "oracle",
         table_comment |-> IF found /\ TruthyStr(meta.comment) THEN meta.comment[1] ELSE "",
         columns |-> [k \in 1..Len(cols) |->
                        [name |-> cols[k].name,
                         data_type |-> _oracle_column_type(OracleDataType(cols[k]), cols[k].length,
                                                           cols[k].precision, cols[k].scale),
                         nullable |-> cols[k].nullable,
                         default |-> IF TruthyStr(cols[k].default) THEN cols[k].default ELSE Null,
                         comment |-> cols[k].comment]],
         indexes |-> indexes,
         partitions |-> [k \in 1..Len(parts) |->
                           [name |-> parts[k].name, position |-> parts[k].position,
                            high_value |-> IF TruthyStr(parts[k].high_value)
                                           THEN parts[k].high_value ELSE Null,
                            num_rows |-> parts[k].num_rows,
                            compression |-> parts[k].label]],
         statistics |-> IF found
                        THEN _stats_dict(meta.stats.num_rows, meta.stats.blocks,
                                         meta.stats.avg_row_len, meta.stats.last_analyzed)
                        ELSE <<>>]

\* ---- MySQL

STATISTICS(cat) ==
    UNION {{[TABLE_SCHEMA |-> x.table[1], TABLE_NAME |-> x.table[2], INDEX_NAME |-> x.name,
             INDEX_TYPE |-> "BTREE", NON_UNIQUE |-> IF x.unique THEN 0 ELSE 1,
             SEQ_IN_INDEX |-> p, COLUMN_NAME |-> x.keys[p]] :
                p \in 1..Len(x.keys)} : x \in cat.indexes}

\* COLUMN_TYPE as the engine spells it
MysqlColumnType(col) ==
    CASE col.kind = "number" -> "int"
      [] col.kind = "decimal" -> "decimal(" \o Str(col.precision) \o "," \o Str(col.scale) \o ")"
      [] col.kind = "string" -> "varchar(" \o Str(col.length) \o ")"
      [] col.kind = "date" -> "date"

MysqlIndexes(cat, schema, table_name) ==
    LET hits == {r \in STATISTICS(cat) : r.TABLE_SCHEMA = schema /\ r.TABLE_NAME = table_name}
        groups == {<<r.INDEX_NAME, r.INDEX_TYPE, r.NON_UNIQUE>> : r \in hits}
        rows(g) == {[col |-> r.COLUMN_NAME, pos |-> r.SEQ_IN_INDEX, id |-> r] :
                        r \in {h \in hits : <<h.INDEX_NAME, h.INDEX_TYPE, h.NON_UNIQUE>> = g}}
    IN  {[name |-> g[1], type |-> g[2],
          unique |-> IF g[3] = 0 THEN "UNIQUE" ELSE "NONUNIQUE",
          columns |-> AggregateColumns(rows(g), ",")] : g \in groups}

_mysql_table_info(cat, schema, table_name, indexes) ==
    LET found == CatalogLookup(cat, schema, table_name) # {}
        meta == LookedUp(cat, schema, table_name)
        cols == IF found THEN meta.columns ELSE <<>>
        parts == IF found THEN meta.partitions ELSE <<>>
    IN  [schema |-> schema, table |-> table_name, db_type |-> "mysql",
         table_comment |-> IF found /\ TruthyStr(meta.comment) THEN meta.comment[1] ELSE "",
         columns |-> [k \in 1..Len(cols) |->
                        [name |-> cols[k].name,
                         data_type |-> MysqlColumnType(cols[k]),
                         nullable |-> cols[k].nullable,
                         default |-> cols[k].default,
                         comment |-> IF TruthyStr(cols[k].comment) THEN cols[k].comment ELSE Some("")]],
         indexes |-> indexes,
         partitions |-> [k \in 1..Len(parts) |->
                           [name |-> parts[k].name, position |-> parts[k].position,
                            high_value |-> parts[k].high_value,
                            num_rows |-> parts[k].num_rows,
                            compression |-> parts[k].label]],
         statistics |-> IF found
                        THEN _stats_dict(meta.stats.num_rows, meta.stats.blocks,
                                         meta.stats.avg_row_len, meta.stats.last_analyzed)
                        ELSE <<>>]

\* ---- PostgreSQL

\* format_type(atttypid, atttypmod) as the engine spells it
PgFormatType(col) ==
    CASE col.kind = "number" -> "integer"
      [] col.kind = "decimal" -> "numeric(" \o Str(col.precision) \o "," \o Str(col.scale) \o ")"
      [] col.kind = "string" -> "character varying(" \o Str(col.length) \o ")"
      [] col.kind = "date" -> "date"

\* pg_index.indkey: the key columns, then the INCLUDE columns
IndKey(x) == x.keys \o x.included

PgIndexes(cat, schema, table_name) ==
    LET hits == {x \in cat.indexes : x.table[1] = schema /\ x.table[2] = table_name}
        joined == UNION {{[relname |-> x.name, amname |-> "btree", indisunique |-> x.unique,
                           attname |-> IndKey(x)[p], array_position |-> p] :
                              p \in 1..Len(IndKey(x))} : x \in hits}
        groups == {<<j.relname, j.amname, j.indisunique>> : j \in joined}
        rows(g) == {[col |-> j.attname, pos |-> j.array_position, id |-> j] :
                        j \in {h \in joined : <<h.relname, h.amname, h.indisunique>> = g}}
    IN  {[name |-> g[1], type |-> g[2], unique |-> UniqueLabel(g[3]),
          columns |-> AggregateColumns(rows(g), ", ")] : g \in groups}

_pg_table_info(cat, schema, table_name, indexes) ==
    LET found == CatalogLookup(cat, schema, table_name) # {}
        meta == LookedUp(cat, schema, table_name)
        cols == IF found THEN meta.columns ELSE <<>>
    IN  [schema |-> schema, table |-> table_name, db_type |-> "postgresql",
         table_comment |-> IF found /\ TruthyStr(meta.comment) THEN meta.comment[1] ELSE "",
         columns |-> [k \in 1..Len(cols) |->
                        [name |-> cols[k].name,
                         data_type |-> PgFormatType(cols[k]),
                         nullable |-> cols[k].nullable,
                         default |-> cols[k].default,
                         comment |-> IF TruthyStr(cols[k].comment) THEN cols[k].comment ELSE Some("")]],
         indexes |-> indexes,
         partitions |-> <<>>,
         statistics |-> IF found
                        THEN _stats_dict(meta.stats.num_rows, meta.stats.blocks, Null, Null)
                        ELSE <<>>]

\* ---- SQL Server

\* TYPE_NAME(user_type_id) and the suffix the columns query computes
SqlServerTypeName(col) ==
    CASE col.kind = "number" -> "int"
      [] col.kind = "decimal" -> "decimal"
      [] col.kind = "string" -> "varchar"
      [] col.kind = "date" -> "date"

SqlServerDataType(col) ==
    LET type_name == SqlServerTypeName(col)
    IN  type_name \o
        (IF type_name \in {"varchar", "nvarchar", "char", "nchar"}
         THEN "(" \o (IF col.length = Some(-1) THEN "MAX" ELSE Str(col.length)) \o ")"
         ELSE IF type_name \in {"decimal", "numeric"}
         THEN "(" \o Str(col.precision) \o "," \o Str(col.scale) \o ")"
         ELSE "")

\* sys.index_columns: key columns by key_ordinal, included columns with key_ordinal 0
SqlServerIndexes(cat, schema, table_name) ==
    LET hits == {x \in cat.indexes : x.table[1] = schema /\ x.table[2] = table_name}
        joined == UNION {{[name |-> x.name, type_desc |-> "NONCLUSTERED", is_unique |-> x.unique,
                           column |-> x.keys[p], key_ordinal |-> p] : p \in 1..Len(x.keys)}
                         \cup {[name |-> x.name, type_desc |-> "NONCLUSTERED", is_unique |-> x.unique,
                                column |-> x.included[p], key_ordinal |-> 0] :
                                  p \in 1..Len(x.included)} : x \in hits}
        groups == {<<j.name, j.type_desc, j.is_unique>> : j \in joined}
        rows(g) == {[col |-> j.column, pos |-> j.key_ordinal, id |-> j] :
                        j \in {h \in joined : <<h.name, h.type_desc, h.is_unique>> = g}}
    IN  {[name |-> g[1], type |-> g[2], unique |-> UniqueLabel(g[3]),
          columns |-> AggregateColumns(rows(g), ", ")] : g \in groups}

\* sys.partitions: every table has at least one partition row; the scheme is
\* NULL unless the table is partitioned
SqlServerPartitionRows(parts) ==
    IF parts = <<>> THEN <<[number |-> 1, rows |-> Some(0), scheme |-> Null]>>
    ELSE [k \in 1..Len(parts) |->
            [number |-> parts[k].position, rows |-> parts[k].num_rows, scheme |-> parts[k].label]]

_sqlserver_table_info(cat, schema, table_name, indexes) ==
    LET found == CatalogLookup(cat, schema, table_name) # {}
        meta == LookedUp(cat, schema, table_name)
        cols == IF found THEN meta.columns ELSE <<>>
        partition_rows == IF found THEN SqlServerPartitionRows(meta.partitions) ELSE <<>>
        kept == SelectSeq(partition_rows, LAMBDA row : TruthyStr(row.scheme))
    IN  [schema |-> schema, table |-> table_name, db_type |-> "sqlserver",
         table_comment |-> IF found /\ TruthyStr(meta.comment) THEN meta.comment[1] ELSE "",
         columns |-> [k \in 1..Len(cols) |->
                        [name |-> cols[k].name,
                         data_type |-> SqlServerDataType(cols[k]),
                         nullable |-> cols[k].nullable,
                         default |-> cols[k].default,
                         comment |-> IF TruthyStr(cols[k].comment) THEN cols[k].comment ELSE Some("")]],
         indexes |-> indexes,
         partitions |-> [k \in 1..Len(kept) |->
                           [name |-> "Partition_" \o ToString(kept[k].number),
                            position |-> kept[k].number,
                            num_rows |-> kept[k].rows,
                            high_value |-> Null,
                            compression |-> kept[k].scheme]],
         statistics |-> IF found
                        THEN _stats_dict(meta.stats.num_rows, meta.stats.blocks,
                                         meta.stats.avg_row_len, meta.stats.last_analyzed)
                        ELSE <<>>]

\* ---- dispatch (_INFO_FUNCS) and the inspection call

\* the result sets the index query of the dialect may give
IndexRows(db_type, cat, schema, table_name) ==
    AdmittedResults(CASE db_type = "oracle" -> OracleIndexes(cat, schema, table_name)
                      [] db_type = "mysql" -> MysqlIndexes(cat, schema, table_name)
                      [] db_type = "postgresql" -> PgIndexes(cat, schema, table_name)
                      [] db_type = "sqlserver" -> SqlServerIndexes(cat, schema, table_name))

info_func(db_type, cat, schema, table_name, indexes) ==
    CASE db_type = "oracle" -> _oracle_table_info(cat, schema, table_name, indexes)
      [] db_type = "mysql" -> _mysql_table_info(cat, schema, table_name, indexes)
      [] db_type = "postgresql" -> _pg_table_info(cat, schema, table_name, indexes)
      [] db_type = "sqlserver" -> _sqlserver_table_info(cat, schema, table_name, indexes)

\* ---- formatters (_FORMATTERS) and the formatting step of get_table_info

Formats == {"text", "markdown", "json", "xml"}

\* _FORMATTERS.get(fmt, format_text)
formatter(fmt) ==
    CASE fmt = "markdown" -> "format_markdown"
      [] fmt = "json" -> "format_json"
      [] OTHER -> "format_text"

\* format_text lists the first ten partitions
PartitionsShown == 10

\* format_text applies the format spec :<10 to the compression of every
\* partition it lists; None has no such format and TypeError is raised
format_text_raises(info) ==
    \E k \in 1..Min(PartitionsShown, Len(info.partitions)) :
        info.partitions[k].compression = Null

\* the outcome of formatter(info): the formatter that rendered the text, or
\* the exception it raised
FormatOutcome(fmt, info) ==
    IF formatter(fmt) = "format_text" /\ format_text_raises(info)
    THEN [raised |-> TRUE,
          exc |-> [type |-> "TypeError",
                   message |-> "unsupported format string passed to NoneType.__format__"]]
    ELSE [raised |-> FALSE, rendered_by |-> formatter(fmt)]

\* faulty variant: every adapter leaves the partitions query out
CatalogQueries_no_partitions(db_type) ==
    <<"table_comment", "columns", "indexes", "statistics">>

\* the cursor.execute calls of an adapter, in program order; none is inside
\* a condition or a loop
CatalogQueries(db_type) ==
    IF db_type = "postgresql"
    THEN <<"table_comment", "columns", "indexes", "statistics">>
    ELSE <<"table_comment", "columns", "indexes", "partitions", "statistics">>

InitInspect ==
    \E db_type \in Dialects, fmt \in Formats :
    \E cat \in Catalogs(db_type) :
        /\ WellFormed(db_type, cat)
        /\ ti = [pc |-> "call", db_type |-> db_type, catalog |-> cat,
                 schema |-> InspectedTable[1], table |-> InspectedTable[2], fmt |-> fmt,
                 info |-> <<>>, queries |-> <<>>, output |-> Null, exc |-> Null]
        /\ rq = IdleFrame
        /\ dt = IdleFrame
        /\ ct = IdleFrame
        /\ ss = IdleFrame
        /\ sp = IdleFrame
        /\ vc = IdleFrame
        /\ ch = IdleFrame
        /\ gc = IdleFrame
        /\ vm = IdleFrame

\* the adapter runs its catalog queries and builds the TableInfo; the index
\* rows arrive in the order the engine returns the groups
InspectTable ==
    /\ ti.pc = "call"
    /\ \E fetched \in IndexRows(ti.db_type, ti.catalog, ti.schema, ti.table) :
       \E indexes \in Orderings(fetched) :
          ti' = [ti EXCEPT !.pc = "done",
                           !.info = info_func(ti.db_type, ti.catalog, ti.schema, ti.table, indexes),
                           !.queries = CatalogQueries(ti.db_type)]
    /\ UNCHANGED <<rq, dt, ct, ss, sp, vc, ch, gc, vm>>

\* after the with block: formatter(info) is returned, or its exception
\* leaves get_table_info
InspectFormat ==
    /\ ti.pc = "done"
    /\ LET out == FormatOutcome(ti.fmt, ti.info) IN
       IF out.raised
       THEN ti' = [ti EXCEPT !.pc = "raised", !.exc = Some(out.exc)]
       ELSE ti' = [ti EXCEPT !.pc = "returned", !.output = Some(out.rendered_by)]
    /\ UNCHANGED <<rq, dt, ct, ss, sp, vc, ch, gc, vm>>

NextInspect ==
    \/ InspectTable
    \/ InspectFormat

SpecInspect == InitInspect /\ [][NextInspect]_vars

\* C9: for every dialect the indexes of the TableInfo hold exactly one entry
\* per distinct index name of the inspected table, and the columns of each
\* entry are the key columns of that index joined as "A, B" in key-position
\* order.
IndexesOfInspected ==
    {x \in ti.catalog.indexes : x.table = <<ti.schema, ti.table>>}

C9_OneEntryPerIndexKeyColumns ==
    ti.pc = "done" =>
        /\ Len(ti.info.indexes) = Cardinality({x.name : x \in IndexesOfInspected})
        /\ \A k \in 1..Len(ti.info.indexes) :
              \E x \in IndexesOfInspected :
                  /\ ti.info.indexes[k].name = x.name
                  /\ ti.info.indexes[k].columns = JoinWith(x.keys, ", ")

\* C10: for every dialect, inspecting a (schema, table) pair the catalog does
\* not hold returns a TableInfo with empty table_comment, columns, indexes,
\* partitions and statistics.
C10_MissingTableEmptyInfo ==
    (ti.pc = "done" /\ <<ti.schema, ti.table>> \notin ti.catalog.tables) =>
        /\ ti.info.table_comment = ""
        /\ ti.info.columns = <<>>
        /\ ti.info.indexes = <<>>
        /\ ti.info.partitions = <<>>
        /\ ti.info.statistics = <<>>

C10_Witness ==
    /\ ti.pc = "done"
    /\ <<ti.schema, ti.table>> \notin ti.catalog.tables
    /\ ti.catalog.indexes # {}
    /\ ti.info.columns = <<>>
    /\ ti.info.statistics = <<>>


\* C27 as stated: every adapter issues exactly four catalog queries per
\* inspection, in the same order, whatever the catalog holds.
C27_ExactlyFourQueries ==
    ti.pc = "done" =>
        ti.queries = <<"table_comment", "columns", "indexes", "statistics">>

\* C27 amended: whatever the catalog holds, the oracle, mysql and sqlserver
\* adapters issue exactly five catalog queries per inspection, in the order
\* table comment, columns, indexes, partitions, statistics; the postgresql
\* adapter issues exactly four, the same order without the partitions query.
C27_FixedCatalogQueries ==
    ti.pc = "done" =>
        /\ ti.db_type \in {"oracle", "mysql", "sqlserver"} =>
              ti.queries = <<"table_comment", "columns", "indexes", "partitions", "statistics">>
        /\ ti.db_type = "postgresql" =>
              ti.queries = <<"table_comment", "columns", "indexes", "statistics">>

\* C27 witness: an oracle inspection of a table the catalog holds, five
\* queries issued
C27_Witness ==
    /\ ti.pc = "done"
    /\ ti.db_type = "oracle"
    /\ <<ti.schema, ti.table>> \in ti.catalog.tables
    /\ Len(ti.queries) = 5
    /\ ti.queries[4] = "partitions"
-----------------------------------------------------------------------------
(* MetadataSearch: search_schema._match, _oracle_search, _mysql_search,     *)
(* _pg_search, _sqlserver_search, search_schema                             *)

\* str.upper()
UpperChars(str) == [i \in 1..Len(str) |-> UpperChar(str[i])]

IsDigit(c) == c \in {"0", "1", "2", "3", "4", "5", "6", "7", "8", "9"}

\* truthiness of a nullable text: None and "" are falsy
TruthyText(v) == v # Null /\ v[1] # <<>>

\* the units of a regular expression: \d, \D, an escaped or a plain character
RECURSIVE ParsePattern(_)
ParsePattern(chars) ==
    IF chars = <<>> THEN <<>>
    ELSE IF chars[1] = "\\" /\ Len(chars) >= 2
    THEN <<(CASE chars[2] = "d" -> [kind |-> "digit"]
              [] chars[2] = "D" -> [kind |-> "nondigit"]
              [] OTHER -> [kind |-> "lit", ch |-> chars[2]])>>
         \o ParsePattern(SubSeq(chars, 3, Len(chars)))
    ELSE <<[kind |-> "lit", ch |-> chars[1]]>> \o ParsePattern(Tail(chars))

\* one unit against one character under re.IGNORECASE
UnitMatches(unit, c) ==
    CASE unit.kind = "digit" -> IsDigit(c)
      [] unit.kind = "nondigit" -> ~IsDigit(c)
      [] OTHER -> LowerChar(unit.ch) = LowerChar(c)

\* re.search(pattern, text, re.IGNORECASE)
re_search(pattern, text) ==
    LET units == ParsePattern(pattern)
    IN  \E i \in 1..(Len(text) - Len(units) + 1) :
            \A k \in 1..Len(units) : UnitMatches(units[k], text[i + k - 1])

\* pattern.lower() in text.lower()
SubstringOf(pattern, text) ==
    \E i \in 1..(Len(text) - Len(pattern) + 1) :
        \A k \in 1..Len(pattern) : LowerChar(pattern[k]) = LowerChar(text[i + k - 1])

_match(pattern, text, use_regex) ==
    IF ~TruthyText(text) THEN FALSE
    ELSE IF use_regex THEN re_search(pattern, text[1])
    ELSE SubstringOf(pattern, text[1])

\* ---- the catalog of columns the engines expose

\* (schema, table, column position) in catalog order
SearchKeys ==
    <<<<"R", <<"T", "A">>, 1>>, <<"S", <<"T", "A">>, 1>>, <<"S", <<"T", "A">>, 2>>,
      <<"S", <<"T", "B">>, 1>>, <<"S", <<"T", "B">>, 2>>>>

ColumnNames == {<<"A", "B">>, <<"C", "1">>}
ColumnComments == {Null, Some(<<"v", "2">>)}

SearchTableComment(key) ==
    IF key[1] = "R" THEN Some(<<"x", "y">>)
    ELSE IF key[2] = <<"T", "A">> THEN Null
    ELSE Some(<<>>)

\* the columns of the catalog: one per key, with any comment and with names
\* that are unique within a table
SearchCatalogs ==
    {{[key |-> SearchKeys[k], schema |-> SearchKeys[k][1], table |-> SearchKeys[k][2],
       column |-> f[k][1], col_comment |-> f[k][2],
       tbl_comment |-> SearchTableComment(SearchKeys[k])] : k \in 1..MaxSearchRows} :
        f \in {g \in [1..MaxSearchRows -> ColumnNames \X ColumnComments] :
                 \A i, j \in 1..MaxSearchRows :
                     (i # j /\ SearchKeys[i][1] = SearchKeys[j][1]
                            /\ SearchKeys[i][2] = SearchKeys[j][2]) => g[i][1] # g[j][1]}}

KeyRank(key) == CHOOSE k \in 1..Len(SearchKeys) : SearchKeys[k] = key

\* ORDER BY schema, table, column position
RECURSIVE OrderByCatalog(_)
OrderByCatalog(rows) ==
    IF rows = {} THEN <<>>
    ELSE LET r == CHOOSE x \in rows : \A y \in rows : KeyRank(x.key) <= KeyRank(y.key)
         IN  <<r>> \o OrderByCatalog(rows \ {r})

\* schema.upper()
UpperName(schema) == IF schema = "s" THEN "S" ELSE IF schema = "r" THEN "R" ELSE schema

\* the columns query: optional schema predicate, catalog order
ColumnsQuery(db_type, catalog, schema) ==
    LET wanted == IF schema = Null \/ schema[1] = "" THEN Null
                  ELSE IF db_type = "oracle" THEN Some(UpperName(schema[1]))
                  ELSE schema
    IN  OrderByCatalog({r \in catalog : wanted = Null \/ r.schema = wanted[1]})

\* identifier folding before comparison: lower for postgresql, upper otherwise
Canon(db_type, str) == IF db_type = "postgresql" THEN Lower(str) ELSE UpperChars(str)

\* the comment text handed to _match: as fetched (oracle), COALESCE(.., '')
\* in the query (postgresql) or `or ""` (mysql, sqlserver)
CommentText(v) == IF TruthyText(v) THEN v ELSE Some(<<>>)

\* the match decision of one fetched row
RowMatches(db_type, keyword, search_in, use_regex, r) ==
    \/ /\ "names" \in search_in
       /\ \/ _match(Canon(db_type, keyword), Some(Canon(db_type, r.column)), use_regex)
          \/ _match(Canon(db_type, keyword), Some(Canon(db_type, r.table)), use_regex)
    \/ /\ "comments" \in search_in
       /\ \/ _match(keyword, CommentText(r.col_comment), use_regex)
          \/ _match(keyword, CommentText(r.tbl_comment), use_regex)

\* the result row built from a fetched row
ColumnMatch(db_type, r) ==
    [schema |-> r.schema, table |-> r.table, column |-> r.column,
     table_comment |-> IF db_type \in {"mysql", "postgresql", "sqlserver"}
                       THEN CommentText(r.tbl_comment) ELSE r.tbl_comment,
     column_comment |-> IF db_type \in {"mysql", "postgresql", "sqlserver"}
                        THEN CommentText(r.col_comment) ELSE r.col_comment]

Keywords == {<<"a", "b">>, <<"v">>, <<"t">>, <<"\\", "d">>, <<"\\", "D">>}
SearchIns == SUBSET {"names", "comments"}
SchemaFilters == {Null, Some("s")}

InitSearch ==
    \E db_type \in Dialects, catalog \in SearchCatalogs, keyword \in Keywords,
       search_in \in SearchIns, use_regex \in BOOLEAN, limit \in 0..MaxLimit,
       schema \in SchemaFilters :
        /\ ss = [pc |-> "call", db_type |-> db_type, catalog |-> catalog, keyword |-> keyword,
                 schema |-> schema, search_in |-> search_in, use_regex |-> use_regex,
                 limit |-> limit, matched_tables |-> {}, cursor |-> <<>>, pos |-> 0, count |-> 0,
                 results |-> <<>>, examined |-> <<>>]
        /\ rq = IdleFrame
        /\ dt = IdleFrame
        /\ ct = IdleFrame
        /\ ti = IdleFrame
        /\ sp = IdleFrame
        /\ vc = IdleFrame
        /\ ch = IdleFrame
        /\ gc = IdleFrame
        /\ vm = IdleFrame

\* the oracle adapter first scans the tables of the catalog for matching
\* names and comments; the set it collects is not read afterwards
MatchedTables(db_type, catalog, keyword, schema, search_in, use_regex) ==
    IF db_type = "oracle" /\ search_in # {}
    THEN LET rows == ColumnsQuery(db_type, catalog, schema)
         IN  {<<rows[k].schema, rows[k].table>> : k \in
                {j \in 1..Len(rows) :
                    \/ "names" \in search_in
                       /\ _match(UpperChars(keyword), Some(UpperChars(rows[j].table)), use_regex)
                    \/ "comments" \in search_in
                       /\ _match(keyword, CommentText(rows[j].tbl_comment), use_regex)}}
    ELSE {}

\* the queries before the loop: cursor.execute of the columns query
SearchExecute ==
    /\ ss.pc = "call"
    /\ ss' = [ss EXCEPT !.pc = "loop",
                        !.matched_tables = MatchedTables(ss.db_type, ss.catalog, ss.keyword,
                                                         ss.schema, ss.search_in, ss.use_regex),
                        !.cursor = ColumnsQuery(ss.db_type, ss.catalog, ss.schema)]
    /\ UNCHANGED <<rq, dt, ct, ti, sp, vc, ch, gc, vm>>

\* faulty variant: the loop stops one match late
SearchFetch_late ==
    /\ ss.pc = "loop"
    /\ ss.pos < Len(ss.cursor)
    /\ LET r == ss.cursor[ss.pos + 1]
           hit == RowMatches(ss.db_type, ss.keyword, ss.search_in, ss.use_regex, r)
       IN  IF ss.count > ss.limit
           THEN ss' = [ss EXCEPT !.pc = "done", !.pos = ss.pos + 1]
           ELSE ss' = [ss EXCEPT !.pos = ss.pos + 1,
                                 !.examined = Append(ss.examined, r.key),
                                 !.count = IF hit THEN ss.count + 1 ELSE ss.count,
                                 !.results = IF hit THEN Append(ss.results, ColumnMatch(ss.db_type, r))
                                             ELSE ss.results]
    /\ UNCHANGED <<rq, dt, ct, ti, sp, vc, ch, gc, vm>>

\* one iteration of `for r in cursor`: break at the limit, else examine the row
SearchFetch ==
    /\ ss.pc = "loop"
    /\ ss.pos < Len(ss.cursor)
    /\ LET r == ss.cursor[ss.pos + 1]
           hit == RowMatches(ss.db_type, ss.keyword, ss.search_in, ss.use_regex, r)
       IN  IF ss.count >= ss.limit
           THEN ss' = [ss EXCEPT !.pc = "done", !.pos = ss.pos + 1]
           ELSE ss' = [ss EXCEPT !.pos = ss.pos + 1,
                                 !.examined = Append(ss.examined, r.key),
                                 !.count = IF hit THEN ss.count + 1 ELSE ss.count,
                                 !.results = IF hit THEN Append(ss.results, ColumnMatch(ss.db_type, r))
                                             ELSE ss.results]
    /\ UNCHANGED <<rq, dt, ct, ti, sp, vc, ch, gc, vm>>

\* the cursor is exhausted
SearchExhausted ==
    /\ ss.pc = "loop"
    /\ ss.pos = Len(ss.cursor)
    /\ ss' = [ss EXCEPT !.pc = "done"]
    /\ UNCHANGED <<rq, dt, ct, ti, sp, vc, ch, gc, vm>>

NextSearch == SearchExecute \/ SearchFetch \/ SearchExhausted

SpecSearch == InitSearch /\ [][NextSearch]_vars


\* the keyword occurs in a text: the case-insensitive match of the keyword as given
Occurs(keyword, text, use_regex) == _match(keyword, text, use_regex)

NameOccurrence(m) ==
    \/ Occurs(ss.keyword, Some(m.column), ss.use_regex)
    \/ Occurs(ss.keyword, Some(m.table), ss.use_regex)

CommentOccurrence(m) ==
    \/ Occurs(ss.keyword, m.column_comment, ss.use_regex)
    \/ Occurs(ss.keyword, m.table_comment, ss.use_regex)

\* C11: with fields = {names} a column whose only keyword occurrence is in its
\* column or table comment gives no result row; with fields = {comments} a
\* column whose only occurrence is in its identifiers gives none; with no
\* field no row is produced.
C11_OnlySelectedFieldsConsulted ==
    ss.pc = "done" =>
        /\ ss.search_in = {"names"} =>
              \A k \in 1..Len(ss.results) :
                  ~(CommentOccurrence(ss.results[k]) /\ ~NameOccurrence(ss.results[k]))
        /\ ss.search_in = {"comments"} =>
              \A k \in 1..Len(ss.results) :
                  ~(NameOccurrence(ss.results[k]) /\ ~CommentOccurrence(ss.results[k]))
        /\ ss.search_in = {} => ss.results = <<>>


\* the rows of the cursor that match, in cursor order
MatchingRows ==
    SelectSeq(ss.cursor, LAMBDA r : RowMatches(ss.db_type, ss.keyword, ss.search_in,
                                               ss.use_regex, r))

\* the result of the same search without a limit
UnlimitedResult == [k \in 1..Len(MatchingRows) |-> ColumnMatch(ss.db_type, MatchingRows[k])]

\* C12: the result is the first min(limit, number of matching rows) matching
\* rows in catalog order (schema, table, column position): never longer than
\* limit, a prefix of the unlimited result, and no row is examined after the
\* limit-th match is collected.
C12_FirstLimitMatchesInCatalogOrder ==
    ss.pc = "done" =>
        /\ ss.cursor = OrderByCatalog({ss.cursor[k] : k \in 1..Len(ss.cursor)})
        /\ Len(ss.results) = Min(ss.limit, Len(MatchingRows))
        /\ Len(ss.results) <= ss.limit
        /\ ss.results = SubSeq(UnlimitedResult, 1, Len(ss.results))
        /\ ss.examined = [k \in 1..Len(ss.examined) |-> ss.cursor[k].key]
        /\ ss.limit = 0 => ss.examined = <<>>
        /\ (ss.limit > 0 /\ Len(ss.results) = ss.limit) =>
              ss.examined[Len(ss.examined)] = MatchingRows[ss.limit].key

\* C12 witness: limit 1, two or more matching rows, one returned and the
\* rest of the cursor left unexamined
C12_Witness ==
    /\ ss.pc = "done"
    /\ ss.limit = 1
    /\ Len(MatchingRows) >= 2
    /\ Len(ss.results) = 1
    /\ Len(ss.examined) < Len(ss.cursor)
    /\ ss.results[1] = ColumnMatch(ss.db_type, MatchingRows[1])


\* the keyword occurs in the column's own name (names enabled) or in the
\* column's own comment (comments enabled)
ColumnItselfMatches(m) ==
    \/ "names" \in ss.search_in /\ Occurs(ss.keyword, Some(m.column), ss.use_regex)
    \/ "comments" \in ss.search_in /\ Occurs(ss.keyword, m.column_comment, ss.use_regex)

\* C22: every result row is a distinct catalog column (schema, table,
\* column) that itself matches the keyword in an enabled field, so that a
\* table appears once per matching column.
C22_OneRowPerMatchingColumn ==
    ss.pc = "done" =>
        /\ \A i, j \in 1..Len(ss.results) :
              i # j => <<ss.results[i].schema, ss.results[i].table, ss.results[i].column>>
                       # <<ss.results[j].schema, ss.results[j].table, ss.results[j].column>>
        /\ \A k \in 1..Len(ss.results) : ColumnItselfMatches(ss.results[k])

\* the match decision of a dialect on an identifier: keyword and identifier
\* are folded, then handed to _match
IdentifierMatch(db_type, keyword, identifier, use_regex) ==
    _match(Canon(db_type, keyword), Some(Canon(db_type, identifier)), use_regex)

\* C23: for every dialect the match of a table or column identifier equals
\* the case-insensitive substring test (or regex search) of the caller's
\* keyword against the identifier, so all four dialects decide alike.
C23_FoldingChangesNoMatch ==
    ss.pc \in {"loop", "done"} =>
        \A k \in 1..Len(ss.cursor) : \A d \in Dialects :
            /\ IdentifierMatch(d, ss.keyword, ss.cursor[k].column, ss.use_regex)
                 = Occurs(ss.keyword, Some(ss.cursor[k].column), ss.use_regex)
            /\ IdentifierMatch(d, ss.keyword, ss.cursor[k].table, ss.use_regex)
                 = Occurs(ss.keyword, Some(ss.cursor[k].table), ss.use_regex)

-----------------------------------------------------------------------------
(* ProcedureSourceSearch: search_procedures._match,                         *)
(* _oracle_build_text_filter, _oracle_fetch_by_name,                        *)
(* _oracle_search_procedures, search_procedures                             *)

\* truthiness of a nullable string of characters
TruthyChars(v) == v # Null /\ v[1] # <<>>

\* str.strip()
Strip(chars) == LStrip(RStrip(chars))

\* pattern.upper() in text.upper()
UpperSubstringOf(pattern, text) ==
    \E i \in 1..(Len(text) - Len(pattern) + 1) :
        \A k \in 1..Len(pattern) : UpperChar(pattern[k]) = UpperChar(text[i + k - 1])

\* search_procedures._match(text, pattern, use_regex); pattern is nullable
source_match(text, pattern, use_regex) ==
    IF text = <<>> \/ ~TruthyChars(pattern) THEN FALSE
    ELSE IF use_regex THEN re_search(pattern[1], text)
    ELSE UpperSubstringOf(pattern[1], text)

\* UPPER(TEXT) LIKE '%' || val || '%': in val, _ stands for any one character
LikeContains(text, val) ==
    \E i \in 1..(Len(text) - Len(val) + 1) :
        \A k \in 1..Len(val) : val[k] = "_" \/ val[k] = UpperChar(text[i + k - 1])

\* one condition of _oracle_build_text_filter evaluated on a source line
TextCondition(text, pattern, use_regex) ==
    IF use_regex THEN re_search(pattern[1], text)
    ELSE LikeContains(text, UpperChars(Strip(pattern[1])))

\* the condition _oracle_build_text_filter builds: the supplied filters, OR-ed
_oracle_build_text_filter(text, table_name, text_content, use_regex) ==
    \/ TruthyChars(table_name) /\ TextCondition(text, table_name, use_regex)
    \/ TruthyChars(text_content) /\ TextCondition(text, text_content, use_regex)

\* ---- ALL_SOURCE

valid_types == <<"PROCEDURE", "PACKAGE", "PACKAGE BODY", "FUNCTION">>

\* (owner, name, type) in ascending order
SortedProcKeys ==
    <<<<<<"R">>, <<"P">>, "PROCEDURE">>, <<<<"S">>, <<"P">>, "PACKAGE">>,
      <<<<"S">>, <<"P">>, "PACKAGE BODY">>, <<<<"S">>, <<"Q">>, "FUNCTION">>,
      <<<<"S">>, <<"Q">>, "TRIGGER">>>>

\* the objects of a catalog, in the order catalogs grow
ProcKeySlots ==
    <<SortedProcKeys[2], SortedProcKeys[3], SortedProcKeys[1], SortedProcKeys[4],
      SortedProcKeys[5]>>

ProcKeyRank(key) == CHOOSE k \in 1..Len(SortedProcKeys) : SortedProcKeys[k] = key

\* source bodies: line i of a body is its i-th text
Bodies ==
    {<<<<"t", "a">>, <<"x">>>>,              \* table name and text on different lines
     <<<<"t", "a">>, <<"t", "_">>>>,         \* table name only; a literal underscore
     <<<<"q">>, <<"x", "\n">>>>,             \* text only
     <<<<"t", "b", " ">>>>}                  \* neither, but another table name

SourceCatalogs == [1..MaxSourceObjects -> Bodies]

\* the rows of ALL_SOURCE
ALL_SOURCE(source) ==
    UNION {{[key |-> ProcKeySlots[k], line |-> i, text |-> source[k][i]] :
                i \in 1..Len(source[k])} : k \in DOMAIN source}

\* ORDER BY OWNER, NAME, TYPE, LINE
RECURSIVE OrderBySource(_)
OrderBySource(rows) ==
    IF rows = {} THEN <<>>
    ELSE LET r == CHOOSE x \in rows : \A y \in rows :
                      \/ ProcKeyRank(x.key) < ProcKeyRank(y.key)
                      \/ ProcKeyRank(x.key) = ProcKeyRank(y.key) /\ x.line <= y.line
         IN  <<r>> \o OrderBySource(rows \ {r})

\* [t for t in object_types if t in valid_types] or valid_types
types_to_use(object_types) ==
    LET kept == SelectSeq(object_types, LAMBDA t : \E k \in 1..Len(valid_types) : valid_types[k] = t)
    IN  IF kept = <<>> THEN valid_types ELSE kept

InTypes(t, types) == \E k \in 1..Len(types) : types[k] = t

\* the keys of a fetched row sequence, ascending (sorted(all_keys))
RECURSIVE SortedKeys(_)
SortedKeys(keys) ==
    IF keys = {} THEN <<>>
    ELSE LET k == CHOOSE x \in keys : \A y \in keys : ProcKeyRank(x) <= ProcKeyRank(y)
         IN  <<k>> \o SortedKeys(keys \ {k})

\* the lines of one object among fetched rows, as [line, text.rstrip()]
LinesOf(rows, key) ==
    LET mine == SelectSeq(rows, LAMBDA r : r.key = key)
    IN  [i \in 1..Len(mine) |-> [line |-> mine[i].line, text |-> RStrip(mine[i].text)]]

\* faulty variant: the slice is taken for a limit of 0 as well
Truncate_unconditional(full_lines, limit_lines_per_object) ==
    IF Len(full_lines) > limit_lines_per_object
    THEN SubSeq(full_lines, 1, limit_lines_per_object)
    ELSE full_lines

\* full_lines[:limit] when the limit is positive and exceeded
Truncate(full_lines, limit_lines_per_object) ==
    IF limit_lines_per_object > 0 /\ Len(full_lines) > limit_lines_per_object
    THEN SubSeq(full_lines, 1, limit_lines_per_object)
    ELSE full_lines

\* ---- fetch by name

\* obj.split(".", 1): the parts before and after the first dot
SplitDot(obj) ==
    LET dots == {i \in 1..Len(obj) : obj[i] = "."}
    IN  IF dots = {} THEN <<obj>>
        ELSE LET d == CHOOSE i \in dots : \A j \in dots : i <= j
             IN  <<SubSeq(obj, 1, d - 1), SubSeq(obj, d + 1, Len(obj))>>

\* faulty variant: the owner is not part of the query
_oracle_fetch_by_name_any_owner(source, object_name, object_owner, object_types, limit_lines_per_object) ==
    LET types == types_to_use(object_types)
        objname == UpperChars(Strip(object_name))
        rows == OrderBySource({r \in ALL_SOURCE(source) :
                    r.key[2] = objname /\ InTypes(r.key[3], types)})
        keys == SortedKeys({rows[i].key : i \in 1..Len(rows)})
    IN  [k \in 1..Len(keys) |->
            [schema |-> keys[k][1], name |-> keys[k][2], type |-> keys[k][3],
             match_count |-> 0, matching_line_numbers |-> <<>>,
             lines |-> Truncate(LinesOf(rows, keys[k]), limit_lines_per_object)]]

_oracle_fetch_by_name(source, object_name, object_owner, object_types, limit_lines_per_object) ==
    LET types == types_to_use(object_types)
        objname == UpperChars(Strip(object_name))
        rows == OrderBySource({r \in ALL_SOURCE(source) :
                    /\ r.key[2] = objname
                    /\ InTypes(r.key[3], types)
                    /\ TruthyChars(object_owner) =>
                          r.key[1] = UpperChars(Strip(object_owner[1]))})
        keys == SortedKeys({rows[i].key : i \in 1..Len(rows)})
    IN  [k \in 1..Len(keys) |->
            [schema |-> keys[k][1], name |-> keys[k][2], type |-> keys[k][3],
             match_count |-> 0, matching_line_numbers |-> <<>>,
             lines |-> Truncate(LinesOf(rows, keys[k]), limit_lines_per_object)]]

\* ---- two-phase search

\* phase 1: the rows of the filtered query
Phase1Rows(source, table_name, text_content, schema, object_types, use_regex) ==
    LET types == types_to_use(object_types)
    IN  OrderBySource({r \in ALL_SOURCE(source) :
            /\ InTypes(r.key[3], types)
            /\ _oracle_build_text_filter(r.text, table_name, text_content, use_regex)
            /\ TruthyChars(schema) => r.key[1] = UpperChars(schema[1])})

match_table(r, table_name, use_regex) ==
    IF TruthyChars(table_name) THEN source_match(r.text, table_name, use_regex) ELSE TRUE

match_text(r, text_content, use_regex) ==
    IF TruthyChars(text_content) THEN source_match(r.text, text_content, use_regex) ELSE TRUE

object_has_table(rows, key, table_name, use_regex) ==
    \E i \in 1..Len(rows) : rows[i].key = key /\ match_table(rows[i], table_name, use_regex)

object_has_text(rows, key, text_content, use_regex) ==
    \E i \in 1..Len(rows) : rows[i].key = key /\ match_text(rows[i], text_content, use_regex)

matching_line_nums(rows, key, table_name, text_content, use_regex) ==
    LET hits == SelectSeq(rows, LAMBDA r :
                    /\ r.key = key
                    /\ match_table(r, table_name, use_regex) \/ match_text(r, text_content, use_regex))
    IN  [i \in 1..Len(hits) |-> hits[i].line]

\* faulty variant: an object is kept when it satisfies either supplied filter
RECURSIVE filtered_keys_either(_, _, _, _, _, _)
filtered_keys_either(keys, rows, table_name, text_content, use_regex, limit_objects) ==
    IF keys = <<>> THEN <<>>
    ELSE IF /\ TruthyChars(table_name) => ~object_has_table(rows, keys[1], table_name, use_regex)
            /\ TruthyChars(text_content) => ~object_has_text(rows, keys[1], text_content, use_regex)
    THEN filtered_keys_either(Tail(keys), rows, table_name, text_content, use_regex, limit_objects)
    ELSE IF 1 >= limit_objects THEN <<keys[1]>>
    ELSE <<keys[1]>> \o filtered_keys_either(Tail(keys), rows, table_name, text_content,
                                             use_regex, limit_objects - 1)

\* the loop over sorted(all_keys): skip, append, break at the limit
RECURSIVE filtered_keys(_, _, _, _, _, _)
filtered_keys(keys, rows, table_name, text_content, use_regex, limit_objects) ==
    IF keys = <<>> THEN <<>>
    ELSE IF \/ TruthyChars(table_name) /\ ~object_has_table(rows, keys[1], table_name, use_regex)
            \/ TruthyChars(text_content) /\ ~object_has_text(rows, keys[1], text_content, use_regex)
    THEN filtered_keys(Tail(keys), rows, table_name, text_content, use_regex, limit_objects)
    ELSE IF 1 >= limit_objects THEN <<keys[1]>>
    ELSE <<keys[1]>> \o filtered_keys(Tail(keys), rows, table_name, text_content, use_regex,
                                      limit_objects - 1)

\* phase 2: the complete source of the retained keys
Phase2Rows(source, keys) ==
    OrderBySource({r \in ALL_SOURCE(source) : \E k \in 1..Len(keys) : keys[k] = r.key})

MatchingLineCap == 100

\* faulty variant: the matching line numbers are taken from the lines kept
ProcedureMatches_within_cut(keys, rows1, rows2, table_name, text_content, use_regex, limit_lines_per_object) ==
    [k \in 1..Len(keys) |->
        LET all == matching_line_nums(rows1, keys[k], table_name, text_content, use_regex)
            nums == IF limit_lines_per_object > 0
                    THEN SelectSeq(all, LAMBDA n : n <= limit_lines_per_object) ELSE all
        IN  [schema |-> keys[k][1], name |-> keys[k][2], type |-> keys[k][3],
             match_count |-> Len(nums),
             matching_line_numbers |-> SubSeq(nums, 1, Min(Len(nums), MatchingLineCap)),
             lines |-> Truncate(LinesOf(rows2, keys[k]), limit_lines_per_object)]]

ProcedureMatches(keys, rows1, rows2, table_name, text_content, use_regex, limit_lines_per_object) ==
    [k \in 1..Len(keys) |->
        LET nums == matching_line_nums(rows1, keys[k], table_name, text_content, use_regex)
        IN  [schema |-> keys[k][1], name |-> keys[k][2], type |-> keys[k][3],
             match_count |-> Len(nums),
             matching_line_numbers |-> SubSeq(nums, 1, Min(Len(nums), MatchingLineCap)),
             lines |-> Truncate(LinesOf(rows2, keys[k]), limit_lines_per_object)]]


\* ---- search_procedures

TableFilters == {Null, Some(<<"t", "a">>), Some(<<" ", "t", "_">>), Some(<<"t", "_">>)}
TextFilters == {Null, Some(<<"x">>)}
ObjectNames == {Some(<<"p">>), Some(<<"s", ".", "p">>), Some(<<"r", ".", "p">>),
                Some(<<" ", "q", " ">>), Some(<<"z">>)}
ObjectTypeLists == {Null, <<"PACKAGE">>, <<"VIEW">>}
ProcSchemas == {Null, Some(<<"s">>)}

ProcFrame(db_type, source, table_name, text_content, object_name, schema, object_types, use_regex, limit_objects, limit_lines_per_object) ==
    [pc |-> "call", db_type |-> db_type, source |-> source, table_name |-> table_name,
     text_content |-> text_content, object_name |-> object_name, schema |-> schema,
     object_types |-> object_types, use_regex |-> use_regex, limit_objects |-> limit_objects,
     limit_lines_per_object |-> limit_lines_per_object,
     conn |-> "none", opened |-> 0, queries |-> <<>>, rows1 |-> <<>>, keys |-> <<>>,
     results |-> <<>>, error |-> None]

InitProcedures ==
    /\ \E source \in SourceCatalogs, schema \in ProcSchemas, object_types \in ObjectTypeLists,
          limit_lines_per_object \in 0..MaxLineLimit :
          \/ \E table_name \in TableFilters, text_content \in TextFilters,
                use_regex \in BOOLEAN, limit_objects \in 0..MaxObjectLimit :
                /\ object_types # <<"VIEW">>
                /\ sp = ProcFrame("oracle", source, table_name, text_content, Null, schema,
                               object_types, use_regex, limit_objects, limit_lines_per_object)
          \/ \E object_name \in ObjectNames, table_name \in {Null, Some(<<"t", "a">>)} :
                sp = ProcFrame("oracle", source, table_name, Null, object_name, schema,
                               object_types, FALSE, MaxObjectLimit, limit_lines_per_object)
          \/ \E db_type \in Dialects \ {"oracle"}, object_name \in {Null, Some(<<"p">>)} :
                sp = ProcFrame(db_type, source, Some(<<"t", "a">>), Null, object_name, schema,
                               object_types, FALSE, MaxObjectLimit, limit_lines_per_object)
    /\ rq = IdleFrame
    /\ dt = IdleFrame
    /\ ct = IdleFrame
    /\ ti = IdleFrame
    /\ ss = IdleFrame
    /\ vc = IdleFrame
    /\ ch = IdleFrame
    /\ gc = IdleFrame
    /\ vm = IdleFrame

\* get_db_type(db_alias) gives another dialect: ValueError
ProcRejectDialect ==
    /\ sp.pc = "call"
    /\ sp.db_type # "oracle"
    /\ sp' = [sp EXCEPT !.pc = "raised", !.error = "ValueError"]
    /\ UNCHANGED <<rq, dt, ct, ti, ss, vc, ch, gc, vm>>

\* faulty variant: the connection is opened before the dialect is looked at
ProcConnect_any_dialect ==
    /\ sp.pc = "call"
    /\ sp' = [sp EXCEPT !.pc = IF sp.db_type = "oracle" THEN "connected" ELSE "raised",
                        !.error = IF sp.db_type = "oracle" THEN None ELSE "ValueError",
                        !.conn = IF sp.db_type = "oracle" THEN "open" ELSE "released",
                        !.opened = sp.opened + 1,
                        !.object_types = IF sp.object_types = Null THEN valid_types
                                         ELSE sp.object_types]
    /\ UNCHANGED <<rq, dt, ct, ti, ss, vc, ch, gc, vm>>

\* the dialect is oracle: default object types, get_connection, conn.cursor()
ProcConnect ==
    /\ sp.pc = "call"
    /\ sp.db_type = "oracle"
    /\ sp' = [sp EXCEPT !.pc = "connected", !.conn = "open", !.opened = sp.opened + 1,
                        !.object_types = IF sp.object_types = Null THEN valid_types
                                         ELSE sp.object_types]
    /\ UNCHANGED <<rq, dt, ct, ti, ss, vc, ch, gc, vm>>

\* object_name given: owner from the qualifier or from schema, one query
ProcFetchByName ==
    /\ sp.pc = "connected"
    /\ TruthyChars(sp.object_name)
    /\ LET parts == SplitDot(Strip(sp.object_name[1]))
           object_owner == IF Len(parts) = 2 THEN Some(parts[1]) ELSE sp.schema
           obj_name == parts[Len(parts)]
       IN  sp' = [sp EXCEPT !.pc = "exit",
                            !.queries = Append(sp.queries, "by_name"),
                            !.results = _oracle_fetch_by_name(sp.source, obj_name, object_owner,
                                            sp.object_types, sp.limit_lines_per_object)]
    /\ UNCHANGED <<rq, dt, ct, ti, ss, vc, ch, gc, vm>>

\* _oracle_search_procedures up to the end of phase 1
ProcPhase1 ==
    /\ sp.pc = "connected"
    /\ ~TruthyChars(sp.object_name)
    /\ IF ~TruthyChars(sp.table_name) /\ ~TruthyChars(sp.text_content)
       THEN sp' = [sp EXCEPT !.pc = "exit", !.results = <<>>]
       ELSE LET rows == Phase1Rows(sp.source, sp.table_name, sp.text_content, sp.schema,
                                   sp.object_types, sp.use_regex)
                all_keys == SortedKeys({rows[i].key : i \in 1..Len(rows)})
                keys == filtered_keys(all_keys, rows, sp.table_name, sp.text_content,
                                      sp.use_regex, sp.limit_objects)
            IN  sp' = [sp EXCEPT !.pc = IF keys = <<>> THEN "exit" ELSE "phase2",
                                 !.queries = Append(sp.queries, "phase1"),
                                 !.rows1 = rows, !.keys = keys, !.results = <<>>]
    /\ UNCHANGED <<rq, dt, ct, ti, ss, vc, ch, gc, vm>>

\* phase 2: the full source of the retained keys and the result list
ProcPhase2 ==
    /\ sp.pc = "phase2"
    /\ sp' = [sp EXCEPT !.pc = "exit",
                        !.queries = Append(sp.queries, "phase2"),
                        !.results = ProcedureMatches(sp.keys, sp.rows1,
                                        Phase2Rows(sp.source, sp.keys), sp.table_name,
                                        sp.text_content, sp.use_regex,
                                        sp.limit_lines_per_object)]
    /\ UNCHANGED <<rq, dt, ct, ti, ss, vc, ch, gc, vm>>

\* leaving the with block
ProcRelease ==
    /\ sp.pc = "exit"
    /\ sp' = [sp EXCEPT !.pc = "returned", !.conn = "released"]
    /\ UNCHANGED <<rq, dt, ct, ti, ss, vc, ch, gc, vm>>

NextProcedures ==
    \/ ProcRejectDialect
    \/ ProcConnect
    \/ ProcFetchByName
    \/ ProcPhase1
    \/ ProcPhase2
    \/ ProcRelease

SpecProcedures == InitProcedures /\ [][NextProcedures]_vars


\* ---- properties of the procedure source search

FilterMode == sp.pc = "returned" /\ ~TruthyChars(sp.object_name)
ByNameMode == sp.pc = "returned" /\ TruthyChars(sp.object_name)

KeyOf(m) == <<m.schema, m.name, m.type>>

\* the source lines of an object in the catalog
SourceLinesOf(key) == {r \in ALL_SOURCE(sp.source) : r.key = key}

\* some source line of the object matches the pattern
HasLineMatching(key, pattern) ==
    \E r \in SourceLinesOf(key) : source_match(r.text, pattern, sp.use_regex)

\* the object satisfies every supplied filter
SatisfiesFilters(key) ==
    /\ TruthyChars(sp.table_name) => HasLineMatching(key, sp.table_name)
    /\ TruthyChars(sp.text_content) => HasLineMatching(key, sp.text_content)

\* C13: an object is returned only if it satisfies every supplied filter: with
\* a table filter and a text filter it has a source line matching the table
\* pattern and a source line, possibly another one, matching the text pattern.
C13_EveryFilterSatisfied ==
    FilterMode => \A k \in 1..Len(sp.results) : SatisfiesFilters(KeyOf(sp.results[k]))

\* C13 witness: both filters given; S.P PACKAGE has the table name on line 1
\* and the text on line 2 and is returned, S.P PACKAGE BODY has the table
\* name only and is not
C13_Witness ==
    /\ FilterMode
    /\ TruthyChars(sp.table_name) /\ TruthyChars(sp.text_content)
    /\ sp.source[1] = <<<<"t", "a">>, <<"x">>>>
    /\ sp.source[2] = <<<<"t", "a">>, <<"t", "_">>>>
    /\ \E k \in 1..Len(sp.results) : KeyOf(sp.results[k]) = ProcKeySlots[1]
    /\ \A k \in 1..Len(sp.results) : KeyOf(sp.results[k]) # ProcKeySlots[2]

\* C14: with lineLimit = 0 every value of matching_line_numbers is the line
\* number of an entry of lines.
C14_MatchingLinesPresent ==
    (FilterMode /\ sp.limit_lines_per_object = 0) =>
        \A k \in 1..Len(sp.results) :
            \A i \in 1..Len(sp.results[k].matching_line_numbers) :
                \E j \in 1..Len(sp.results[k].lines) :
                    sp.results[k].lines[j].line = sp.results[k].matching_line_numbers[i]

\* C14 witness: an object returned with two matching lines, both in lines
C14_Witness ==
    /\ FilterMode
    /\ sp.limit_lines_per_object = 0
    /\ \E k \in 1..Len(sp.results) :
          /\ sp.results[k].matching_line_numbers = <<1, 2>>
          /\ Len(sp.results[k].lines) = 2
          /\ sp.results[k].match_count = 2

\* the objects of the catalog the filters select, ascending by (owner, name, type)
SelectedKeys ==
    SortedKeys({key \in {ProcKeySlots[k] : k \in DOMAIN sp.source} :
        /\ InTypes(key[3], types_to_use(sp.object_types))
        /\ TruthyChars(sp.schema) => key[1] = UpperChars(sp.schema[1])
        /\ TruthyChars(sp.table_name) \/ TruthyChars(sp.text_content)
        /\ SatisfiesFilters(key)})

\* C15: for every objectLimit, 0 included, at most objectLimit objects are
\* returned: the first objectLimit of the objects satisfying the filters in
\* ascending (owner, name, type) order, each key once.
C15_AtMostObjectLimit ==
    FilterMode =>
        /\ Len(sp.results) <= sp.limit_objects
        /\ Len(sp.results) = Min(sp.limit_objects, Len(SelectedKeys))
        /\ \A k \in 1..Len(sp.results) : KeyOf(sp.results[k]) = SelectedKeys[k]


\* the name and the owner a by-name call asks for
AskedParts == SplitDot(Strip(sp.object_name[1]))
AskedName == UpperChars(Strip(AskedParts[Len(AskedParts)]))
AskedOwner ==
    IF Len(AskedParts) = 2 THEN Some(UpperChars(Strip(AskedParts[1])))
    ELSE IF TruthyChars(sp.schema) THEN Some(UpperChars(Strip(sp.schema[1])))
    ELSE Null

\* the complete line-ordered source of an object of the catalog
CompleteSource(key) ==
    LET k == CHOOSE j \in DOMAIN sp.source : ProcKeySlots[j] = key
    IN  [i \in 1..Len(sp.source[k]) |-> [line |-> i, text |-> RStrip(sp.source[k][i])]]

AskedKeys ==
    SortedKeys({key \in {ProcKeySlots[k] : k \in DOMAIN sp.source} :
        /\ key[2] = AskedName
        /\ InTypes(key[3], sp.object_types)
        /\ AskedOwner # Null => key[1] = AskedOwner[1]})

\* some requested type is one of the four source types (all four are
\* requested when the call names none)
SomeRequestedTypeValid ==
    \E k \in 1..Len(sp.object_types) : InTypes(sp.object_types[k], valid_types)

TwoPhaseResult(L) ==
    IF ~TruthyChars(sp.table_name) /\ ~TruthyChars(sp.text_content) THEN <<>>
    ELSE LET rows == Phase1Rows(sp.source, sp.table_name, sp.text_content, sp.schema,
                                sp.object_types, sp.use_regex)
             all_keys == SortedKeys({rows[i].key : i \in 1..Len(rows)})
             keys == filtered_keys(all_keys, rows, sp.table_name, sp.text_content,
                                   sp.use_regex, sp.limit_objects)
         IN  IF keys = <<>> THEN <<>>
             ELSE ProcedureMatches(keys, rows, Phase2Rows(sp.source, keys), sp.table_name,
                                   sp.text_content, sp.use_regex, L)

\* C24: the returned objects, their order, match_count and
\* matching_line_numbers are the same for every lineLimit; lineLimit changes
\* only lines, the first lineLimit entries of the complete line-ordered
\* source when lineLimit > 0 and the complete source when lineLimit = 0.
C24_LineLimitOnlyCutsLines ==
    FilterMode =>
        /\ sp.results = TwoPhaseResult(sp.limit_lines_per_object)
        /\ \A L \in 0..(MaxLineLimit + 1) :
              LET other == TwoPhaseResult(L)
              IN  /\ Len(other) = Len(sp.results)
                  /\ \A k \in 1..Len(sp.results) :
                        /\ KeyOf(other[k]) = KeyOf(sp.results[k])
                        /\ other[k].match_count = sp.results[k].match_count
                        /\ other[k].matching_line_numbers = sp.results[k].matching_line_numbers
        /\ \A k \in 1..Len(sp.results) :
              LET full == CompleteSource(KeyOf(sp.results[k]))
              IN  sp.results[k].lines =
                      IF sp.limit_lines_per_object > 0
                      THEN SubSeq(full, 1, Min(Len(full), sp.limit_lines_per_object))
                      ELSE full

\* C24 witness: line limit 1, an object of two lines returned with one line
\* and with line 2 among its matching line numbers
C24_Witness ==
    /\ FilterMode
    /\ sp.limit_lines_per_object = 1
    /\ \E k \in 1..Len(sp.results) :
          /\ Len(sp.results[k].lines) = 1
          /\ sp.results[k].matching_line_numbers = <<1, 2>>
          /\ sp.results[k].match_count = 2

\* the phase-1 rows of an object whose text matches a supplied pattern
ClientMatchedRows(key) ==
    SelectSeq(sp.rows1, LAMBDA r :
        /\ r.key = key
        /\ \/ source_match(r.text, sp.table_name, sp.use_regex)
           \/ source_match(r.text, sp.text_content, sp.use_regex))

\* C25: every object of the two-phase search has match_count >= 1, equal to
\* the number of its phase-1 rows whose text matches the table pattern or
\* the text pattern, and matching_line_numbers holds the first
\* min(match_count, 100) of those line numbers in ascending order.
C25_MatchCountCountsMatchingRows ==
    FilterMode =>
        \A k \in 1..Len(sp.results) :
            LET m == sp.results[k]
                hits == ClientMatchedRows(KeyOf(m))
            IN  /\ m.match_count >= 1
                /\ m.match_count = Len(hits)
                /\ Len(m.matching_line_numbers) = Min(m.match_count, MatchingLineCap)
                /\ m.matching_line_numbers =
                       [i \in 1..Min(Len(hits), MatchingLineCap) |-> hits[i].line]
                /\ \A i, j \in 1..Len(m.matching_line_numbers) :
                       i < j => m.matching_line_numbers[i] < m.matching_line_numbers[j]

\* the objects with a row in the phase-1 result, ascending
Phase1Keys == SortedKeys({sp.rows1[i].key : i \in 1..Len(sp.rows1)})

\* C30: in substring mode with exactly one of the two filters supplied the
\* client-side re-match agrees with the server-side filter: the objects
\* returned are the objects with a row in the phase-1 result, in order, all
\* of them unless objectLimit cuts the list.
C30_ClientAgreesWithServerFilter ==
    (/\ FilterMode
     /\ ~sp.use_regex
     /\ TruthyChars(sp.table_name) # TruthyChars(sp.text_content)) =>
        /\ Len(sp.results) <= Len(Phase1Keys)
        /\ \A k \in 1..Len(sp.results) : KeyOf(sp.results[k]) = Phase1Keys[k]
        /\ Len(sp.results) < sp.limit_objects => Len(sp.results) = Len(Phase1Keys)

\* the types the call asks for (all four when none is given) and the types
\* bound to TYPE IN (...) of its source query
RequestedTypes == {sp.object_types[k] : k \in 1..Len(sp.object_types)}
SearchedTypes ==
    LET types == types_to_use(sp.object_types) IN {types[k] : k \in 1..Len(types)}

\* C29: in both entry modes the types searched are exactly the requested
\* types that belong to {PROCEDURE, PACKAGE, PACKAGE BODY, FUNCTION}, and
\* every returned object has a requested type.
C29_OnlyRequestedTypes ==
    (sp.pc = "returned" /\ sp.queries # <<>>) =>
        /\ SearchedTypes = RequestedTypes \cap {valid_types[k] : k \in 1..Len(valid_types)}
        /\ \A k \in 1..Len(sp.results) : sp.results[k].type \in RequestedTypes

\* C17: with an alias whose dialect is not oracle the call fails with the
\* unsupported-dialect error in every entry mode, before a connection is
\* opened and without a query, and is not retried.
C17_NonOracleRejectedBeforeConnection ==
    (sp.pc # "idle" /\ sp.db_type # "oracle") =>
        /\ sp.pc \in {"call", "raised"}
        /\ sp.conn = "none"
        /\ sp.opened = 0
        /\ sp.queries = <<>>
        /\ sp.results = <<>>
        /\ sp.pc = "raised" <=> sp.error = "ValueError"

\* C17 witness: a by-name call on a postgresql alias has raised
C17_Witness ==
    /\ sp.pc = "raised"
    /\ sp.db_type = "postgresql"
    /\ TruthyChars(sp.object_name)
    /\ sp.error = "ValueError"
    /\ sp.opened = 0

-----------------------------------------------------------------------------
(* ConnectionVerifier: verify_connections._run_one and _test_one.          *)
(* _run_one arms a SIGALRM alarm, calls _test_one, cancels the alarm in a  *)
(* finally block and maps a TimeoutException to the timeout result.        *)
(* _test_one opens the connection, pings, fetches and closes inside one    *)
(* try block whose handler is `except Exception`.  The frame vc holds the  *)
(* position of the call, the state of the alarm and the value produced.    *)

CONNECT_TIMEOUT_SEC == 15

VerifyDbTypes == {"oracle", "mysql", "postgresql", "sqlserver"}

\* PING_SQL and the fallback of PING_SQL.get(db_type, "SELECT 1")
PING_SQL(db_type) ==
    IF db_type = "oracle" THEN "SELECT 1 FROM DUAL" ELSE "SELECT 1"

\* class TimeoutException(Exception): raised with no argument, so that
\* str(e) is the empty string; it is an instance of Exception
TimeoutException == [type |-> "TimeoutException", message |-> ""]

DriverErrors ==
    {[type |-> "DatabaseError", message |-> m] : m \in {"refused", "denied"}}

\* str(e)
ExcStr(e) == e.message

\* f"timeout ({CONNECT_TIMEOUT_SEC}s)"
TimeoutMessage == "timeout (" \o ToString(CONNECT_TIMEOUT_SEC) \o "s)"

\* the positions of _test_one that lie inside its try block
InsideTry == {"open", "ping", "fetch", "close"}

\* the positions at which the connection attempt is in progress
AttemptInProgress == {"open", "ping", "fetch"}

\* the positions between signal.alarm(CONNECT_TIMEOUT_SEC) and signal.alarm(0)
AlarmWindow == {"enter"} \cup InsideTry \cup {"after"}

InitVerify ==
    /\ \E d \in VerifyDbTypes, m \in BOOLEAN :
         vc = [pc |-> "start", db_type |-> d, main_thread |-> m,
               alarm |-> "unset", fired_at |-> "never", conn |-> "none",
               released |-> 0, sql |-> Null, err |-> Null,
               err_set |-> FALSE, result |-> Null]
    /\ rq = IdleFrame /\ dt = IdleFrame /\ ct = IdleFrame /\ ti = IdleFrame
    /\ ss = IdleFrame /\ sp = IdleFrame /\ ch = IdleFrame /\ gc = IdleFrame /\ vm = IdleFrame

\* signal.signal(SIGALRM, handler); signal.alarm(CONNECT_TIMEOUT_SEC).
\* Outside the main thread signal.signal raises ValueError, which the
\* outer `except Exception` turns into (False, str(e)).
VerifyArm ==
    /\ vc.pc = "start"
    /\ IF vc.main_thread
       THEN vc' = [vc EXCEPT !.pc = "enter", !.alarm = "armed"]
       ELSE vc' = [vc EXCEPT !.pc = "returned",
                             !.result = Some(<<FALSE, Some("signal only works in main thread of the main interpreter")>>)]
    /\ UNCHANGED <<rq, dt, ct, ti, ss, sp, ch, gc, vm>>

\* _test_one, before the try block: ping = PING_SQL.get(db_type, "SELECT 1")
TestEnter ==
    /\ vc.pc = "enter"
    /\ vc' = [vc EXCEPT !.pc = "open", !.sql = Some(PING_SQL(vc.db_type))]
    /\ UNCHANGED <<rq, dt, ct, ti, ss, sp, ch, gc, vm>>

\* `except Exception as e: return str(e)` of _test_one, after the with
\* block has released a connection that was open
Caught(e) ==
    [vc EXCEPT !.pc = "after", !.err = Some(ExcStr(e)), !.err_set = TRUE,
               !.conn = IF vc.conn = "open" THEN "released" ELSE vc.conn,
               !.released = IF vc.conn = "open" THEN vc.released + 1 ELSE vc.released]

\* with get_connection(alias) as conn: the driver connects or raises
TestOpen ==
    /\ vc.pc = "open"
    /\ \/ vc' = [vc EXCEPT !.pc = "ping", !.conn = "open"]
       \/ \E e \in DriverErrors : vc' = Caught(e)
    /\ UNCHANGED <<rq, dt, ct, ti, ss, sp, ch, gc, vm>>

\* cur = conn.cursor(); cur.execute(ping)
TestPing ==
    /\ vc.pc = "ping"
    /\ \/ vc' = [vc EXCEPT !.pc = "fetch"]
       \/ \E e \in DriverErrors : vc' = Caught(e)
    /\ UNCHANGED <<rq, dt, ct, ti, ss, sp, ch, gc, vm>>

\* cur.fetchone(); cur.close()
TestFetch ==
    /\ vc.pc = "fetch"
    /\ \/ vc' = [vc EXCEPT !.pc = "close"]
       \/ \E e \in DriverErrors : vc' = Caught(e)
    /\ UNCHANGED <<rq, dt, ct, ti, ss, sp, ch, gc, vm>>

\* the with block exits and `return None` is reached
TestClose ==
    /\ vc.pc = "close"
    /\ vc' = [vc EXCEPT !.pc = "after", !.conn = "released",
                        !.released = vc.released + 1,
                        !.err = Null, !.err_set = TRUE]
    /\ UNCHANGED <<rq, dt, ct, ti, ss, sp, ch, gc, vm>>

\* SIGALRM is delivered between two bytecodes of the main thread while the
\* alarm is armed; handler raises TimeoutException at the current position.
\* Inside the try block of _test_one the exception is caught there; outside
\* it the exception leaves the inner try of _run_one, runs the finally block
\* and reaches `except TimeoutException`.
AlarmFires ==
    /\ vc.pc \in AlarmWindow
    /\ vc.alarm = "armed"
    /\ IF vc.pc \in InsideTry
       THEN vc' = [Caught(TimeoutException) EXCEPT !.alarm = "fired",
                                                   !.fired_at = vc.pc]
       ELSE vc' = [vc EXCEPT !.pc = "finally", !.alarm = "fired",
                             !.fired_at = vc.pc,
                             !.result = Some(<<FALSE, Some(TimeoutMessage)>>)]
    /\ UNCHANGED <<rq, dt, ct, ti, ss, sp, ch, gc, vm>>

\* return (err is None, err)
RunReturn ==
    /\ vc.pc = "after"
    /\ vc' = [vc EXCEPT !.pc = "finally",
                        !.result = Some(<<vc.err = Null, vc.err>>)]
    /\ UNCHANGED <<rq, dt, ct, ti, ss, sp, ch, gc, vm>>

\* finally: signal.alarm(0); signal.signal(SIGALRM, old_handler)
RunFinally ==
    /\ vc.pc = "finally"
    /\ vc' = [vc EXCEPT !.pc = "returned",
                        !.alarm = IF vc.alarm = "armed" THEN "cancelled" ELSE vc.alarm]
    /\ UNCHANGED <<rq, dt, ct, ti, ss, sp, ch, gc, vm>>

NextVerify ==
    \/ VerifyArm
    \/ TestEnter
    \/ TestOpen
    \/ TestPing
    \/ TestFetch
    \/ TestClose
    \/ AlarmFires
    \/ RunReturn
    \/ RunFinally

SpecVerify == InitVerify /\ [][NextVerify]_vars

\* C19: when the alarm fires while the connection attempt of _test_one is
\* in progress, _run_one returns (False, "timeout (15s)") and nothing else.
C19_TimeoutResult ==
    (vc.pc = "returned" /\ vc.fired_at \in AttemptInProgress) =>
        vc.result = Some(<<FALSE, Some("timeout (15s)")>>)

-----------------------------------------------------------------------------
(* ParsedDocumentCache: _file_hash, _cache_path, _load_cache and           *)
(* _save_cache of search_glossary.py and search_documents.py (the same     *)
(* code in both, over the same CACHE_DIR).  A spreadsheet path is a record *)
(* of directory, stem and extension; the cache directory maps a cache file *)
(* name to its text, and the frame ch holds the spreadsheets, the cache    *)
(* directory, the last operation and the history of the saves.             *)

MaxCacheOps == 3

CACHE_DIR == ".doc_cache"

\* spreadsheets of the documents folder: two of the same name in different
\* directories and one of another name
CacheFiles ==
    {[dir |-> "a", stem |-> "doc", ext |-> ".xlsx"],
     [dir |-> "b", stem |-> "doc", ext |-> ".xlsx"],
     [dir |-> "a", stem |-> "gls", ext |-> ".xls"]}

FileContents == {"v1", "v2"}

\* parsed rows as parse_file produces them: sheet, row_num, values
RowLists ==
    {<<>>,
     <<[sheet |-> "S", row_num |-> 2, values |-> <<"x">>]>>,
     <<[sheet |-> "S", row_num |-> 2, values |-> <<"y">>],
       [sheet |-> "S", row_num |-> 3, values |-> <<"">>]>>}

\* hashlib.md5 over the whole content: a digest, taken to be different for
\* different contents of FileContents
Md5(content) == "md5:" \o content

\* _file_hash(filepath) in the file system fs
_file_hash(fs, filepath) == Md5(fs[filepath])

\* _cache_path(filepath): CACHE_DIR/<stem>.json, the directory and the
\* extension of the spreadsheet are dropped
_cache_path(filepath) == <<CACHE_DIR, filepath.stem \o ".json">>

CachePaths == {_cache_path(f) : f \in CacheFiles}

\* json.dump / json.load: text of a value, and Some(value) of a text; Null
\* stands for the JSONDecodeError raised on a text that is not JSON
JsonDump(value) == <<"json", value>>

JsonLoad(text) == IF Len(text) = 2 /\ text[1] = "json" THEN Some(text[2]) ELSE Null

\* cached.get("file_hash")
GetFileHash(cached) == cached.file_hash

\* _load_cache(filepath): None is Null, a list of rows is Some(rows)
_load_cache_unverified(fs, cache, filepath) ==
    LET cp == _cache_path(filepath) IN
    IF cache[cp] = Null THEN Null
    ELSE LET cached == JsonLoad(cache[cp][1]) IN
         IF cached = Null THEN Null
         ELSE Some(cached[1].rows)

_load_cache(fs, cache, filepath) ==
    LET cp == _cache_path(filepath) IN
    IF cache[cp] = Null THEN Null
    ELSE LET cached == JsonLoad(cache[cp][1]) IN
         IF cached = Null THEN Null
         ELSE IF GetFileHash(cached[1]) = _file_hash(fs, filepath)
              THEN Some(cached[1].rows)
              ELSE Null

\* _save_cache(filepath, rows): the cache directory after the call
_save_cache(fs, cache, filepath, rows) ==
    [cache EXCEPT ![_cache_path(filepath)] =
        Some(JsonDump([file_hash |-> _file_hash(fs, filepath), rows |-> rows]))]

\* cache directory left by earlier runs: empty, an entry of an older version
\* of a spreadsheet, or a file that is not JSON
EarlierCaches ==
    {[cp \in CachePaths |-> Null]} \cup
    {[cp \in CachePaths |->
        IF cp = <<CACHE_DIR, "doc.json">> THEN Some(t) ELSE Null] :
            t \in {JsonDump([file_hash |-> Md5("v0"), rows |-> <<>>]),
                   <<"{\"file_hash\": ">>}}

NoOp == [kind |-> "none"]

InitCache ==
    /\ \E fs \in [CacheFiles -> FileContents], c \in EarlierCaches :
         ch = [pc |-> "ready", files |-> fs, cache |-> c, steps |-> 0,
               op |-> NoOp,
               last_save |-> [f \in CacheFiles |-> Null],
               entry_save |-> [cp \in CachePaths |-> Null]]
    /\ rq = IdleFrame /\ dt = IdleFrame /\ ct = IdleFrame /\ ti = IdleFrame
    /\ ss = IdleFrame /\ sp = IdleFrame /\ vc = IdleFrame /\ gc = IdleFrame /\ vm = IdleFrame

\* a call _save_cache(f, rows)
SaveCache ==
    /\ ch.pc = "ready"
    /\ ch.steps < MaxCacheOps
    /\ \E f \in CacheFiles, rows \in RowLists :
         LET saved == [file |-> f, rows |-> rows, content |-> ch.files[f]] IN
         ch' = [ch EXCEPT !.cache = _save_cache(ch.files, ch.cache, f, rows),
                          !.steps = ch.steps + 1,
                          !.op = [kind |-> "save", file |-> f, result |-> Null],
                          !.last_save[f] = Some(saved),
                          !.entry_save[_cache_path(f)] = Some(saved)]
    /\ UNCHANGED <<rq, dt, ct, ti, ss, sp, vc, gc, vm>>

\* a call _load_cache(f)
LoadCache ==
    /\ ch.pc = "ready"
    /\ ch.steps < MaxCacheOps
    /\ \E f \in CacheFiles :
         ch' = [ch EXCEPT !.steps = ch.steps + 1,
                          !.op = [kind |-> "load", file |-> f,
                                  result |-> _load_cache(ch.files, ch.cache, f)]]
    /\ UNCHANGED <<rq, dt, ct, ti, ss, sp, vc, gc, vm>>

\* the spreadsheet f is replaced by a version with another content
WriteFile ==
    /\ ch.pc = "ready"
    /\ ch.steps < MaxCacheOps
    /\ \E f \in CacheFiles, c \in FileContents :
         /\ c # ch.files[f]
         /\ ch' = [ch EXCEPT !.files[f] = c,
                             !.steps = ch.steps + 1,
                             !.op = [kind |-> "write", file |-> f, result |-> Null]]
    /\ UNCHANGED <<rq, dt, ct, ti, ss, sp, vc, gc, vm>>

NextCache ==
    \/ SaveCache
    \/ LoadCache
    \/ WriteFile

SpecCache == InitCache /\ [][NextCache]_vars

\* the state right after a call _load_cache(f)
Loaded == ch.pc = "ready" /\ ch.op.kind = "load"

\* the last _save_cache(f, rows) of the loaded file, when its content is
\* still the content it had at that save
UnchangedSave(f) ==
    /\ ch.last_save[f] # Null
    /\ ch.last_save[f][1].content = ch.files[f]

\* the last save into the cache entry of the loaded file
EntrySave(f) == ch.entry_save[_cache_path(f)]

\* None when no cache entry exists, and None when an entry that was saved
\* carries the hash of another content than the current one
NoneWithoutValidEntry(f) ==
    /\ ch.cache[_cache_path(f)] = Null => ch.op.result = Null
    /\ (EntrySave(f) # Null /\ EntrySave(f)[1].content # ch.files[f]) =>
           ch.op.result = Null

\* a hit returns the rows of a save made for the current content
HitForSameContent(f) ==
    ch.op.result # Null =>
        /\ EntrySave(f) # Null
        /\ EntrySave(f)[1].content = ch.files[f]
        /\ ch.op.result = Some(EntrySave(f)[1].rows)

\* C20 (as stated): after _save_cache(f, rows), _load_cache(f) returns rows
\* as long as the content of f is unchanged; it returns None without an
\* entry and on a differing hash; a hit never returns rows saved for another
\* content.
C20_RoundTripWhileUnchanged ==
    Loaded =>
        LET f == ch.op.file IN
        /\ UnchangedSave(f) => ch.op.result = Some(ch.last_save[f][1].rows)
        /\ NoneWithoutValidEntry(f)
        /\ HitForSameContent(f)

\* C20 (amended): the round trip holds as long as the content of f is
\* unchanged and no spreadsheet with the same stem has been saved since;
\* the None cases and the safety of a hit hold as stated.
C20_RoundTripWhileEntryKept ==
    Loaded =>
        LET f == ch.op.file IN
        /\ (UnchangedSave(f) /\ EntrySave(f) # Null /\ EntrySave(f)[1].file = f) =>
               ch.op.result = Some(ch.last_save[f][1].rows)
        /\ NoneWithoutValidEntry(f)
        /\ HitForSameContent(f)

\* C20 witness: the last of the operations loaded back the non-empty rows
\* saved for a/doc.xlsx, whose content and cache entry were kept
C20_Witness ==
    /\ Loaded
    /\ ch.op.file = [dir |-> "a", stem |-> "doc", ext |-> ".xlsx"]
    /\ UnchangedSave(ch.op.file)
    /\ EntrySave(ch.op.file)[1].file = ch.op.file
    /\ ch.op.result # Null
    /\ ch.op.result[1] # <<>>
    /\ ch.steps = MaxCacheOps

-----------------------------------------------------------------------------
(* ConnectionScope: the `with get_connection(db_alias) as conn:` block of  *)
(* get_table_info, search_schema and search_procedures.  The frame gc      *)
(* holds the caller, the catalog queries its body issues, the state of the *)
(* connection and the log of what was done with it.  get_connection is the *)
(* scoped connection of the ConnectionProvider: entering it opens the      *)
(* connection or raises, leaving it releases the connection.               *)

ScopeCallers == {"get_table_info", "search_schema", "search_procedures"}

\* the catalog queries of the body, in the order they are issued
ScopePlans(caller, db_type) ==
    CASE caller = "get_table_info" -> {CatalogQueries(db_type)}
      [] caller = "search_schema" ->
            IF db_type = "oracle"
            THEN {<<"tables", "columns">>, <<"columns">>}
            ELSE {<<"columns">>}
      [] caller = "search_procedures" ->
            {<<"by_name">>, <<>>, <<"phase1">>, <<"phase1", "phase2">>}

\* the catalogs an inspection call meets: with and without the inspected table
ScopeCatalogs ==
    {[tables |-> tables, indexes |-> {}] :
        tables \in {TableUniverse, TableUniverse \ {InspectedTable}}}

\* the output format and the catalog matter to get_table_info only
ScopeInputs(caller) ==
    IF caller = "get_table_info"
    THEN Formats \X ScopeCatalogs
    ELSE {<<"text", [tables |-> {}, indexes |-> {}]>>}

InitScope ==
    /\ \E caller \in ScopeCallers, db_type \in Dialects :
       \E plan \in ScopePlans(caller, db_type), input \in ScopeInputs(caller) :
         gc = [pc |-> "call", caller |-> caller, db_type |-> db_type,
               fmt |-> input[1], catalog |-> input[2],
               plan |-> plan, issued |-> 0, conn |-> "none",
               opened |-> 0, released |-> 0, exc |-> Null, log |-> <<>>,
               failed |-> Null, info |-> Null, result |-> Null]
    /\ rq = IdleFrame /\ dt = IdleFrame /\ ct = IdleFrame /\ ti = IdleFrame
    /\ ss = IdleFrame /\ sp = IdleFrame /\ vc = IdleFrame /\ ch = IdleFrame /\ vm = IdleFrame

\* the statements before the with block: the dialect is looked up and, in
\* search_procedures, every dialect but oracle is rejected
ScopePrelude ==
    /\ gc.pc = "call"
    /\ IF gc.caller = "search_procedures" /\ gc.db_type # "oracle"
       THEN gc' = [gc EXCEPT !.pc = "raised", !.exc = Some([type |-> "ValueError", message |-> "unsupported"])]
       ELSE gc' = [gc EXCEPT !.pc = "enter"]
    /\ UNCHANGED <<rq, dt, ct, ti, ss, sp, vc, ch, vm>>

\* with get_connection(db_alias) as conn: the connection is obtained, or
\* the driver raises and there is no connection
ScopeEnter ==
    /\ gc.pc = "enter"
    /\ \/ gc' = [gc EXCEPT !.pc = "cursor", !.conn = "open",
                           !.opened = gc.opened + 1,
                           !.log = Append(gc.log, [event |-> "open", conn |-> gc.conn])]
       \/ \E e \in DriverErrors : gc' = [gc EXCEPT !.pc = "raised", !.exc = Some(e)]
    /\ UNCHANGED <<rq, dt, ct, ti, ss, sp, vc, ch, vm>>

\* cursor = conn.cursor()
ScopeCursor ==
    /\ gc.pc = "cursor"
    /\ \/ gc' = [gc EXCEPT !.pc = "body"]
       \/ \E e \in DriverErrors : gc' = [gc EXCEPT !.pc = "exit", !.exc = Some(e)]
    /\ UNCHANGED <<rq, dt, ct, ti, ss, sp, vc, ch, vm>>

\* faulty variant: a failing catalog query is skipped and the body goes on
ScopeQuery_skip_failed ==
    /\ gc.pc = "body"
    /\ gc.issued < Len(gc.plan)
    /\ LET entry == [event |-> gc.plan[gc.issued + 1], conn |-> gc.conn] IN
       \/ gc' = [gc EXCEPT !.issued = gc.issued + 1, !.log = Append(gc.log, entry)]
       \/ \E e \in DriverErrors :
             gc' = [gc EXCEPT !.issued = gc.issued + 1, !.log = Append(gc.log, entry),
                              !.failed = Some([query |-> gc.issued + 1, error |-> e])]
    /\ UNCHANGED <<rq, dt, ct, ti, ss, sp, vc, ch, vm>>

\* the next cursor.execute / fetch of the body: it succeeds, or it raises a
\* driver error and the exception leaves the with block
ScopeQuery ==
    /\ gc.pc = "body"
    /\ gc.issued < Len(gc.plan)
    /\ LET entry == [event |-> gc.plan[gc.issued + 1], conn |-> gc.conn] IN
       \/ gc' = [gc EXCEPT !.issued = gc.issued + 1, !.log = Append(gc.log, entry)]
       \/ \E e \in DriverErrors :
             gc' = [gc EXCEPT !.issued = gc.issued + 1, !.log = Append(gc.log, entry),
                              !.pc = "exit", !.exc = Some(e),
                              !.failed = Some([query |-> gc.issued + 1, error |-> e])]
    /\ UNCHANGED <<rq, dt, ct, ti, ss, sp, vc, ch, vm>>

\* the body ends: info is assigned (get_table_info) or the result is
\* returned from inside the block (search_schema, search_procedures)
ScopeBodyDone ==
    /\ gc.pc = "body"
    /\ gc.issued = Len(gc.plan)
    /\ IF gc.caller = "get_table_info"
       THEN gc' = [gc EXCEPT !.pc = "exit",
                             !.info = Some(info_func(gc.db_type, gc.catalog, InspectedTable[1],
                                                     InspectedTable[2], <<>>))]
       ELSE gc' = [gc EXCEPT !.pc = "exit", !.result = Some("rows")]
    /\ UNCHANGED <<rq, dt, ct, ti, ss, sp, vc, ch, vm>>

\* faulty variant: the connection is released only when the body succeeded
ScopeExit_on_success_only ==
    /\ gc.pc = "exit"
    /\ IF gc.exc # Null
       THEN gc' = [gc EXCEPT !.pc = "raised"]
       ELSE gc' = [gc EXCEPT !.conn = "released", !.released = gc.released + 1,
                             !.log = Append(gc.log, [event |-> "release", conn |-> gc.conn]),
                             !.pc = IF gc.caller = "get_table_info" THEN "after" ELSE "returned"]
    /\ UNCHANGED <<rq, dt, ct, ti, ss, sp, vc, ch, vm>>

\* the with block is left: the scoped connection is released, then the
\* exception propagates, or the call goes on after the block
ScopeExit ==
    /\ gc.pc = "exit"
    /\ gc' = [gc EXCEPT !.conn = "released", !.released = gc.released + 1,
                        !.log = Append(gc.log, [event |-> "release", conn |-> gc.conn]),
                        !.pc = IF gc.exc # Null THEN "raised"
                               ELSE IF gc.caller = "get_table_info" THEN "after"
                               ELSE "returned"]
    /\ UNCHANGED <<rq, dt, ct, ti, ss, sp, vc, ch, vm>>

\* get_table_info after the block: formatter(info), no query; the text is
\* returned, or the formatter's exception leaves the call
ScopeFormat ==
    /\ gc.pc = "after"
    /\ LET out == FormatOutcome(gc.fmt, gc.info[1]) IN
       IF out.raised
       THEN gc' = [gc EXCEPT !.pc = "raised", !.exc = Some(out.exc)]
       ELSE gc' = [gc EXCEPT !.pc = "returned", !.result = Some(out.rendered_by)]
    /\ UNCHANGED <<rq, dt, ct, ti, ss, sp, vc, ch, vm>>

NextScope ==
    \/ ScopePrelude
    \/ ScopeEnter
    \/ ScopeCursor
    \/ ScopeQuery
    \/ ScopeBodyDone
    \/ ScopeExit
    \/ ScopeFormat

SpecScope == InitScope /\ [][NextScope]_vars

ScopeEnded == gc.pc \in {"returned", "raised"}

\* the log entries of catalog queries
IsQueryEntry(e) == e.event \notin {"open", "release"}

\* C18: a call that obtained a connection has released it exactly once when
\* it returns or raises, on every exit path; the connection is never
\* released twice, and every query is issued on the open connection, none
\* after the release.
C18_ReleasedExactlyOnce ==
    gc.pc # "idle" =>
        /\ gc.opened <= 1
        /\ gc.released <= gc.opened
        /\ (ScopeEnded /\ gc.opened = 1) => (gc.released = 1 /\ gc.conn = "released")
        /\ gc.pc = "after" => gc.conn = "released"
        /\ \A i \in 1..Len(gc.log) :
             IsQueryEntry(gc.log[i]) =>
                 /\ gc.log[i].conn = "open"
                 /\ \A j \in 1..(i - 1) : gc.log[j].event # "release"

\* C18 witness: the second catalog query of a call failed after the first
\* succeeded, and the call raised with its connection released once
C18_Witness ==
    /\ gc.pc = "raised"
    /\ gc.exc \in {Some(e) : e \in DriverErrors}
    /\ gc.issued = 2
    /\ gc.opened = 1
    /\ gc.released = 1
    /\ gc.log[Len(gc.log)].event = "release"


\* the catalog queries a call has issued, in order
IssuedQueries == SelectSeq(gc.log, IsQueryEntry)

\* C26: when a catalog query of an inspect or search call fails, the driver
\* error reaches the caller unchanged, no later catalog query of the call is
\* issued, no query is issued twice, and the call returns no TableInfo and no
\* result list.
C26_FailedQueryAbortsCall ==
    (gc.pc # "idle" /\ gc.failed # Null) =>
        /\ gc.pc \in {"exit", "raised"}
        /\ gc.exc = Some(gc.failed[1].error)
        /\ gc.info = Null
        /\ gc.result = Null
        /\ Len(IssuedQueries) = gc.failed[1].query
        /\ \A k \in 1..Len(IssuedQueries) : IssuedQueries[k].event = gc.plan[k]
        /\ \A k, l \in 1..Len(IssuedQueries) :
              IssuedQueries[k].event = IssuedQueries[l].event => k = l

\* C26 witness: the third of the five catalog queries of an inspection
\* failed and the call has raised that error
C26_Witness ==
    /\ gc.pc = "raised"
    /\ gc.caller = "get_table_info"
    /\ Len(gc.plan) = 5
    /\ gc.failed = Some([query |-> 3, error |-> [type |-> "DatabaseError", message |-> "denied"]])
    /\ gc.exc = Some([type |-> "DatabaseError", message |-> "denied"])
    /\ Len(IssuedQueries) = 3
    /\ gc.info = Null
    /\ gc.result = Null
-----------------------------------------------------------------------------
(* ConnectionVerifier.main: verify_connections.main.  The frame vm holds   *)
(* the command-line arguments, the configured connections returned by      *)
(* list_available_connections, the connections left to verify, the         *)
(* counters and the exit code.                                              *)

MaxArgs == 2

\* the configured connections: alias and type, in the order of the listing
ConfiguredLists ==
    LET d == [alias |-> <<"D", "W">>, type |-> "oracle"]
        s == [alias |-> <<"S">>, type |-> "mysql"]
    IN  {<<>>, <<d>>, <<s>>, <<d, s>>, <<s, d>>}

\* command-line arguments: a configured alias in lower case, one with
\* surrounding blanks, an unknown one and a blank one
ArgUniverse == {<<"d", "w">>, <<" ", "S", " ">>, <<"X">>, <<" ">>}

ArgLists == UNION {[1..n -> ArgUniverse] : n \in 0..MaxArgs}

\* what _run_one returns: (True, None) or (False, message)
RunOneResults == {<<TRUE, Null>>, <<FALSE, Some("refused")>>, <<FALSE, Some("")>>}

\* [a.strip().upper() for a in sys.argv[1:] if a.strip()]
only_aliases(argv) ==
    LET kept == SelectSeq(argv, LAMBDA a : Strip(a) # <<>>)
    IN  [i \in 1..Len(kept) |-> UpperChars(Strip(kept[i]))]

\* by_alias = {c["alias"].upper(): c for c in connections}: the last
\* connection of an alias wins
by_alias(connections, a) ==
    LET hits == {i \in 1..Len(connections) : UpperChars(connections[i].alias) = a}
    IN  IF hits = {} THEN Null
        ELSE Some(connections[CHOOSE i \in hits : \A j \in hits : j <= i])

\* [by_alias[a] for a in only_aliases if a in by_alias]
Resolved(connections, aliases) ==
    LET known == SelectSeq(aliases, LAMBDA a : by_alias(connections, a) # Null)
    IN  [i \in 1..Len(known) |-> by_alias(connections, known[i])[1]]

\* alias_set - {c["alias"].upper() for c in connections}
unknown(connections, aliases) ==
    {aliases[i] : i \in 1..Len(aliases)} \
        {UpperChars(connections[i].alias) : i \in 1..Len(connections)}

\* position of a letter in the alphabet, the order of str comparison
LetterRank(c) == CHOOSE i \in 1..26 : LowerLetters[i] = LowerChar(c)

\* a.lower() <= b.lower() for texts of letters
RECURSIVE LowerLeq(_, _)
LowerLeq(a, b) ==
    IF a = <<>> THEN TRUE
    ELSE IF b = <<>> THEN FALSE
    ELSE IF LetterRank(Head(a)) # LetterRank(Head(b))
         THEN LetterRank(Head(a)) < LetterRank(Head(b))
    ELSE LowerLeq(Tail(a), Tail(b))

\* sorted(connections, key=lambda x: x["alias"].lower()), a stable sort
RECURSIVE SortedByAlias(_)
SortedByAlias(connections) ==
    IF connections = <<>> THEN <<>>
    ELSE LET rest == SortedByAlias(SubSeq(connections, 1, Len(connections) - 1))
             c == connections[Len(connections)]
             before == SelectSeq(rest, LAMBDA x : LowerLeq(x.alias, c.alias))
             after == SelectSeq(rest, LAMBDA x : ~LowerLeq(x.alias, c.alias))
         IN  before \o <<c>> \o after

InitMain ==
    /\ \E configured \in ConfiguredLists, argv \in ArgLists :
         vm = [pc |-> "start", argv |-> argv, configured |-> configured,
               connections |-> <<>>, pos |-> 0, ok |-> 0, fail |-> 0,
               attempts |-> <<>>, exit |-> Null]
    /\ rq = IdleFrame /\ dt = IdleFrame /\ ct = IdleFrame /\ ti = IdleFrame
    /\ ss = IdleFrame /\ sp = IdleFrame /\ vc = IdleFrame /\ ch = IdleFrame
    /\ gc = IdleFrame

\* faulty variant: unknown aliases are skipped and the known ones verified
MainResolve_skip_unknown ==
    /\ vm.pc = "start"
    /\ LET aliases == only_aliases(vm.argv)
           selected == IF aliases # <<>> THEN Resolved(vm.configured, aliases)
                       ELSE vm.configured
       IN  IF vm.configured = <<>>
           THEN vm' = [vm EXCEPT !.pc = "returned", !.exit = Some(1)]
           ELSE vm' = [vm EXCEPT !.pc = "loop",
                                 !.connections = SortedByAlias(selected)]
    /\ UNCHANGED <<rq, dt, ct, ti, ss, sp, vc, ch, gc>>

\* main up to the loop: the arguments are read, the connections listed and,
\* when aliases are requested, resolved; 1 is returned when nothing is
\* configured or a requested alias is unknown
MainResolve ==
    /\ vm.pc = "start"
    /\ LET aliases == only_aliases(vm.argv)
           selected == IF aliases # <<>> THEN Resolved(vm.configured, aliases)
                       ELSE vm.configured
       IN  IF vm.configured = <<>>
           THEN vm' = [vm EXCEPT !.pc = "returned", !.exit = Some(1)]
           ELSE IF aliases # <<>> /\ unknown(selected, aliases) # {}
           THEN vm' = [vm EXCEPT !.pc = "returned", !.exit = Some(1)]
           ELSE IF aliases # <<>> /\ selected = <<>>
           THEN vm' = [vm EXCEPT !.pc = "returned", !.exit = Some(1)]
           ELSE vm' = [vm EXCEPT !.pc = "loop",
                                 !.connections = SortedByAlias(selected)]
    /\ UNCHANGED <<rq, dt, ct, ti, ss, sp, vc, ch, gc>>

\* one turn of the loop: success, err = _run_one(alias, db_type)
MainVerifyOne ==
    /\ vm.pc = "loop"
    /\ vm.pos < Len(vm.connections)
    /\ \E r \in RunOneResults :
         vm' = [vm EXCEPT !.pos = vm.pos + 1,
                          !.ok = IF r[1] THEN vm.ok + 1 ELSE vm.ok,
                          !.fail = IF r[1] THEN vm.fail ELSE vm.fail + 1,
                          !.attempts = Append(vm.attempts,
                                [alias |-> vm.connections[vm.pos + 1].alias,
                                 db_type |-> vm.connections[vm.pos + 1].type,
                                 success |-> r[1], err |-> r[2]])]
    /\ UNCHANGED <<rq, dt, ct, ti, ss, sp, vc, ch, gc>>

\* return 0 if fail == 0 else 1
MainReturn ==
    /\ vm.pc = "loop"
    /\ vm.pos = Len(vm.connections)
    /\ vm' = [vm EXCEPT !.pc = "returned",
                        !.exit = Some(IF vm.fail = 0 THEN 0 ELSE 1)]
    /\ UNCHANGED <<rq, dt, ct, ti, ss, sp, vc, ch, gc>>

NextMain ==
    \/ MainResolve
    \/ MainVerifyOne
    \/ MainReturn

SpecMain == InitMain /\ [][NextMain]_vars

\* the aliases requested on the command line, blank arguments left out
RequestedAliases ==
    {UpperChars(Strip(vm.argv[i])) : i \in {j \in 1..Len(vm.argv) : Strip(vm.argv[j]) # <<>>}}

ConfiguredAliases ==
    {UpperChars(vm.configured[i].alias) : i \in 1..Len(vm.configured)}

AllVerifiedOk == \A i \in 1..Len(vm.attempts) : vm.attempts[i].success

\* C21: main returns 0 exactly when a connection is configured, every
\* requested alias is configured and every verified connection succeeded;
\* otherwise it returns 1, and with nothing configured or an unknown
\* requested alias it returns 1 without attempting a connection.
C21_ExitCode ==
    vm.pc = "returned" =>
        /\ vm.exit \in {Some(0), Some(1)}
        /\ vm.exit = Some(0) <=>
              /\ vm.configured # <<>>
              /\ RequestedAliases \subseteq ConfiguredAliases
              /\ AllVerifiedOk
        /\ (vm.configured = <<>> \/ ~(RequestedAliases \subseteq ConfiguredAliases)) =>
              (vm.exit = Some(1) /\ vm.attempts = <<>>)

\* C21 witness: two requested, configured aliases were verified, one
\* failed, and main returned 1
C21_Witness ==
    /\ vm.pc = "returned"
    /\ Len(vm.argv) = 2
    /\ RequestedAliases = ConfiguredAliases
    /\ Len(vm.attempts) = 2
    /\ vm.attempts[1].success
    /\ ~vm.attempts[2].success
    /\ vm.exit = Some(1)

-----------------------------------------------------------------------------

Init == InitQuery \/ InitDbType \/ InitColumnType \/ InitInspect \/ InitSearch \/ InitProcedures \/ InitVerify \/ InitCache \/ InitScope \/ InitMain

Next == NextQuery \/ NextDbType \/ NextColumnType \/ NextInspect \/ NextSearch \/ NextProcedures \/ NextVerify \/ NextCache \/ NextScope \/ NextMain

Spec == Init /\ [][Next]_vars

====
